---- MODULE Spec2Model ----
(***************************************************************************)
(* Win100 live scanner: pick emission, dedup and settlement.               *)
(*                                                                         *)
(* Three programs of the repository are modelled, each with its own state: *)
(*   - the NDJSON server (POST /api/scan, POST /api/results/sync) that     *)
(*     writes logs/picks.ndjson and logs/results.ndjson;                   *)
(*   - the log-file settlement scripts runSettle and updateLogs on         *)
(*     logs/picks.log and logs/picks_settled.log;                          *)
(*   - the v4 server (GET /api/scan, allowEmit, refreshRiskSnapshot).      *)
(*                                                                         *)
(* Units: a handicap/total line is an integer number of quarter goals      *)
(* (line * 4), held as <<q>>, and <<>> when the pick has no line; nowIso() *)
(* is the integer clock (one unit = one millisecond).                      *)
(***************************************************************************)
EXTENDS Integers, Sequences, FiniteSets, TLC

\* ------------------------------------------------------------------ bounds
MaxClock    == 1      \* last clock value nowIso() can return
MaxPicksLog == 2      \* records picks.ndjson can hold

\* ------------------------------------------------------------- constants
NULL == "<null>"                 \* JavaScript null / undefined
EmptyId == <<>>                  \* the empty string "" as a pick identifier
DefaultLimit == 400              \* safeNumber(req.body?.limit, 400)
lineRange == 3                   \* safeNumber(st?.params?.lineRange, 3)

\* the fixtures known to the feed, in the order /fixtures?live=all lists them
FixtureIds == <<1>>

Fixtures == {FixtureIds[i] : i \in DOMAIN FixtureIds}

\* params.maxLines of the handicap strategies: as many lines as the log can hold
maxLinesParam == MaxPicksLog
FinishedShorts == {"FT", "AET", "PEN"}
Procs == {1, 2}

VARIABLES
  clock,          \* what nowIso() returned last
  finished,       \* the feed: the fixtures whose match is over
  picksLog,       \* logs/picks.ndjson
  resultsLog,     \* logs/results.ndjson
  scanPc,         \* POST /api/scan: "idle" or "loop" (suspended in the fixture loop)
  scanQueue,      \* fixtures the running scan cycle has still to evaluate
  dedupSet,       \* the running scan cycle's dedupSet
  syncPc,         \* per sync request: "idle" or "fetch" (suspended at the fixture fetch)
  syncSettledIds, \* per sync request: settledIds
  syncInspect,    \* per sync request: toInspect
  syncIdx,        \* per sync request: position in toInspect
  syncDryRun,     \* per sync request: dryRun
  syncSeen,       \* per sync request: length of results.ndjson when it read the file
  cycleBase,      \* length of picks.ndjson when the running scan cycle started
  now,            \* v4 server and scripts: Date.now(), in minutes
  feed,           \* what /fixtures?id= holds per fixture: "live" or [short, fh, fa]
  pickLog,        \* logs/picks.log
  settledLog,     \* logs/picks_settled.log
  recentPickMap,  \* v4 server: key -> [tsMs, edge, price]
  RISK_SNAPSHOT,  \* v4 server: [pnl, consecLose, paused, stakeScale]
  emitLog,        \* history: every allowEmit call that returned true, in order
  allowCalls,     \* history: the allowEmit calls of the latest step
  edgeDrops,      \* history: the home/away picks the latest step dropped for edge_ok
  gsPc,           \* per GET /api/scan request: "idle", "risk", "live", "eval" or "ai"
  gsRead,         \* per request: length of picks.log when refreshRiskSnapshot read it
  gsQueue,        \* per request: live fixtures still to evaluate
  gsCur,          \* per request: the pick whose askAI call is awaited
  gsRest,         \* per request: picks of the current fixture still to go through the loop
  gsBlocked,      \* history, per request: its latest evaluateStrategies call read
                  \* paused = true for a fixture that qualifies
  gsSnap,         \* history, per request: the paused and stakeScale its own
                  \* refreshRiskSnapshot call stored, <<>> when it is not in a cycle
  call            \* a function called on its own: [fn, args, out], out = <<>> until
                  \* it has returned and <<value>> afterwards

ndVars == <<clock, finished, picksLog, resultsLog, scanPc, scanQueue, dedupSet,
            cycleBase, syncPc, syncSettledIds, syncInspect, syncIdx, syncDryRun,
            syncSeen>>

gsVars == <<gsPc, gsRead, gsQueue, gsCur, gsRest, gsBlocked, gsSnap>>

v4Vars == <<now, feed, pickLog, settledLog, recentPickMap, RISK_SNAPSHOT, emitLog,
            allowCalls, edgeDrops, gsVars>>

vars == <<ndVars, v4Vars, call>>

\* ------------------------------------------------------------------ utils
Abs(x) == IF x < 0 THEN -x ELSE x

Min(a, b) == IF a < b THEN a ELSE b

Max(a, b) == IF a > b THEN a ELSE b

\* n / d rounded to the nearest integer, halves away from zero (toFixed)
RoundDiv(n, d) == IF n >= 0 THEN (2 * n + d) \div (2 * d) ELSE -((d - 2 * n) \div (2 * d))

\* the value of x, computed once
Value(x) == CHOOSE v \in {x} : TRUE

\* Below, CHOOSE y \in {F(v) : v \in {x}} : TRUE is F applied to the value of x,
\* with x computed once.

\* no function is being called on its own
NoCall == call = [fn |-> "", args |-> <<>>, out |-> <<>>]

\* ------------------------------------------------- POST /api/scan helpers
StrategyKeys == <<"late_pressure_goal", "equalizer_push", "under_control",
                  "handicap_pressure_home", "handicap_pressure_away">>

\* the strategies that strategies_current.json enables
EnabledKeys == {"late_pressure_goal", "equalizer_push", "handicap_pressure_home"}

\* deterministic id for linking results: fixtureId__strategy__side__ts
makePickId(p) ==
  <<p.fixtureId, p.strategy,
    IF p.side # NULL THEN p.side ELSE IF p.selection # NULL THEN p.selection ELSE "",
    p.ts>>

\* the legacy key: fixture + strategy + side, without the line
makeDedupKey_Legacy(pick) ==
  <<pick.fixtureId, pick.strategy,
    IF pick.side # NULL THEN pick.side ELSE IF pick.selection # NULL THEN pick.selection ELSE "",
    <<>> >>

\* fixture + strategy + side, plus the line for HANDICAP and TOTAL picks
makeDedupKey(pick) ==
  <<pick.fixtureId, pick.strategy,
    IF pick.side # NULL THEN pick.side ELSE IF pick.selection # NULL THEN pick.selection ELSE "",
    IF pick.market \in {"HANDICAP", "TOTAL"} THEN pick.line ELSE <<>> >>

buildPickBase(fixtureId, strategyKey, ts) ==
  [fixtureId |-> fixtureId, strategy |-> strategyKey, ts |-> ts,
   status |-> "PENDING", pickId |-> EmptyId,
   market |-> "", selection |-> "", side |-> NULL, line |-> <<>>]

\* all quarter lines -range .. +range, ascending
HandicapLines(range) == [i \in 1..(8 * range + 1) |-> i - 1 - 4 * range]

\* position of a line when sorted by |line| and then by value: 0, -1, 1, -2, 2, ...
CenterRank(ln) == IF ln = 0 THEN 1 ELSE 2 * Abs(ln) + (IF ln < 0 THEN 0 ELSE 1)

\* the lines a handicap strategy emits: the maxLines lines closest to 0, ascending
ChosenLines(maxLinesP, range) ==
  LET maxLines == Max(1, Min(25, maxLinesP))
      lines == HandicapLines(range)
  IN IF maxLines < Len(lines)
     THEN SelectSeq(lines, LAMBDA ln : CenterRank(ln) <= maxLines)
     ELSE lines

\* the lines the handicap strategies emit under the loaded parameters
chosenLines == ChosenLines(maxLinesParam, lineRange)

\* the k-th nowIso() call of a synchronous block that starts at clock value c, when
\* the millisecond changes just before call number tickAt (0: it does not change)
NowAt(c, k, tickAt) == IF tickAt > 0 /\ k >= tickAt THEN c + 1 ELSE c

\* dedup check, picks.push and appendNdjson(PICKS_LOG, {time, type: "pick", pick});
\* acc = [log: records appended so far, dedup: dedupSet, n: nowIso() calls so far]
EmitPick(acc, pick, c, tickAt) ==
  IF makeDedupKey(pick) \in acc.dedup
  THEN acc
  ELSE [log   |-> Append(acc.log, [time |-> NowAt(c, acc.n + 1, tickAt), type |-> "pick",
                                   pick |-> pick]),
        dedup |-> acc.dedup \cup {makeDedupKey(pick)},
        n     |-> acc.n + 1]

\* the tail of the strategy loop body: pick.pickId is set when it is still falsy
WithPickId(pick) == IF pick.pickId = EmptyId THEN [pick EXCEPT !.pickId = makePickId(pick)] ELSE pick

\* one pick per chosen line; p2.pickId = p2.pickId ?? makePickId(p2) keeps the base's ""
RECURSIVE HandicapPicks(_, _, _, _, _, _)
HandicapPicks(acc, pickBase, sideKey, chosen, c, tickAt) ==
  IF chosen = <<>> THEN acc
  ELSE LET p2 == [pickBase EXCEPT !.market = "HANDICAP",
                                  !.selection = IF sideKey = "home" THEN "HOME" ELSE "AWAY",
                                  !.side = sideKey,
                                  !.line = <<Head(chosen)>>]
           acc2 == Value(EmitPick(acc, p2, c, tickAt))
       IN HandicapPicks(acc2, pickBase, sideKey, Tail(chosen), c, tickAt)

\* the body of the strategy loop for one enabled strategy whose thresholds pass
EvalStrategy(acc, key, fx, fixtureId, c, tickAt) ==
  LET base == buildPickBase(fixtureId, key, NowAt(c, acc.n + 1, tickAt))
      acc1 == [acc EXCEPT !.n = acc.n + 1]
      diff == fx.home - fx.away
      trailing == IF diff < 0 THEN "home" ELSE "away"
  IN CASE key = "late_pressure_goal" ->
            EmitPick(acc1, WithPickId([base EXCEPT !.market = "TOTAL", !.selection = "OVER",
                                                   !.line = <<2>>, !.side = "over"]),
                     c, tickAt)
       [] key = "equalizer_push" ->
            IF diff = 0 THEN acc
            ELSE EmitPick(acc1, WithPickId([base EXCEPT !.market = "NEXT_GOAL",
                                                        !.selection = IF trailing = "home" THEN "HOME" ELSE "AWAY",
                                                        !.side = trailing]),
                          c, tickAt)
       [] key = "under_control" ->
            EmitPick(acc1, WithPickId([base EXCEPT !.market = "TOTAL", !.selection = "UNDER",
                                                   !.line = <<4 * (fx.home + fx.away) + 6>>,
                                                   !.side = "under"]),
                     c, tickAt)
       [] key \in {"handicap_pressure_home", "handicap_pressure_away"} ->
            HandicapPicks(acc1, base, IF key = "handicap_pressure_home" THEN "home" ELSE "away",
                          chosenLines, c, tickAt)
       [] OTHER -> acc

\* the strategy loop over one fixture; qual = the enabled strategies whose
\* evaluateParams reasons are empty for this fixture's metrics
RECURSIVE EvalFixture(_, _, _, _, _, _, _)
EvalFixture(acc, keys, qual, fx, fixtureId, c, tickAt) ==
  IF keys = <<>> THEN acc
  ELSE LET acc2 == Value(IF Head(keys) \in qual
                         THEN EvalStrategy(acc, Head(keys), fx, fixtureId, c, tickAt)
                         ELSE acc)
       IN EvalFixture(acc2, Tail(keys), qual, fx, fixtureId, c, tickAt)

\* ------------------------------------------ POST /api/results/sync helpers
\* a record of picks.ndjson ({time, type: "pick", pick}) as the settlement pass sees it
normalizePickRecord(obj, idx) ==
  [srcLine |-> idx,
   ts |-> obj.time,
   fixtureId |-> obj.pick.fixtureId, strategy |-> obj.pick.strategy,
   market |-> obj.pick.market, selection |-> obj.pick.selection,
   side |-> obj.pick.side, line |-> obj.pick.line,
   result |-> "PENDING"]

settle1x2(side, scoreHome, scoreAway) ==
  LET winner == IF scoreHome > scoreAway THEN "home"
                ELSE IF scoreHome < scoreAway THEN "away" ELSE "draw"
  IN IF side = winner THEN "WIN" ELSE "LOSE"

settleTotal(selection, line, scoreHome, scoreAway) ==
  LET total == 4 * (scoreHome + scoreAway)
  IN IF line = <<>> THEN "SKIP"
     ELSE IF selection = "OVER"
          THEN (IF total > line[1] THEN "WIN" ELSE IF total = line[1] THEN "PUSH" ELSE "LOSE")
     ELSE IF selection = "UNDER"
          THEN (IF total < line[1] THEN "WIN" ELSE IF total = line[1] THEN "PUSH" ELSE "LOSE")
     ELSE "SKIP"

\* a split that never splits: every line is a single part
splitAsianLine_Whole(ln) == <<ln>>

\* parts that lie a whole goal apart, on either side of the line
splitAsianLine_Apart(ln) == <<ln - 2, ln + 2>>

\* the parts of a line: itself when whole or half, else two half-step lines
splitAsianLine(ln) ==
  LET frac == Abs(ln) % 4
      sign == IF ln >= 0 THEN 1 ELSE -1
  IN IF frac \notin {1, 3} THEN <<ln>>
     ELSE IF Abs(ln) = 1 THEN <<0, 2 * sign>>
     ELSE <<2 * sign, 4 * sign>>

outcomeForAdjusted(adjusted) ==
  IF adjusted > 0 THEN "WIN" ELSE IF adjusted < 0 THEN "LOSE" ELSE "PUSH"

settleAsianHandicap(side, line, scoreHome, scoreAway) ==
  IF side \notin {"home", "away"} THEN "SKIP"
  ELSE IF line = <<>> THEN "SKIP"
  ELSE LET parts == splitAsianLine(line[1])
           baseDiff == IF side = "home" THEN 4 * (scoreHome - scoreAway)
                       ELSE 4 * (scoreAway - scoreHome)
           o1 == outcomeForAdjusted(baseDiff + parts[1])
           o2 == outcomeForAdjusted(baseDiff + parts[2])
       IN IF Len(parts) = 1 THEN o1
          ELSE IF o1 = "WIN" /\ o2 = "WIN" THEN "WIN"
          ELSE IF o1 = "LOSE" /\ o2 = "LOSE" THEN "LOSE"
          ELSE IF o1 = "PUSH" /\ o2 = "PUSH" THEN "PUSH"
          ELSE IF {o1, o2} = {"WIN", "PUSH"} THEN "HALF_WIN"
          ELSE IF {o1, o2} = {"LOSE", "PUSH"} THEN "HALF_LOSE"
          ELSE "PUSH"

profitForOutcome_EvenMoney(outcome, odds, stake) ==
  LET s == IF stake = <<>> THEN 100 ELSE stake[1]
  IN IF s <= 0 THEN 0
     ELSE IF outcome = "WIN" THEN (IF odds = <<>> \/ odds[1] <= 100 THEN 100 * s ELSE (odds[1] - 100) * s)
     ELSE IF outcome = "LOSE" THEN -100 * s
     ELSE 0

\* profit in 1/10000 of a unit from odds and stake in 1/100; odds <<>> is a
\* price that is no finite number, stake <<>> is no stake given (stake ?? 1)
profitForOutcome(outcome, odds, stake) ==
  LET s == IF stake = <<>> THEN 100 ELSE stake[1]
  IN IF s <= 0 THEN 0
     ELSE IF outcome = "WIN" THEN (IF odds = <<>> \/ odds[1] <= 100 THEN 0 ELSE (odds[1] - 100) * s)
     ELSE IF outcome = "LOSE" THEN -100 * s
     ELSE 0

\* p.selection || (side === "over" ? "OVER" : side === "under" ? "UNDER" : "")
SyncSelection(p) ==
  IF p.selection \notin {"", NULL} THEN p.selection
  ELSE IF p.side = "over" THEN "OVER"
  ELSE IF p.side = "under" THEN "UNDER"
  ELSE ""

\* ------------------------------------------------------ GET /api/performance
\* the strategies of the result records in the order the Map first sees them
RECURSIVE FirstSeen(_, _)
FirstSeen(rs, seen) ==
  IF rs = <<>> THEN <<>>
  ELSE IF Head(rs).strategy \in seen THEN FirstSeen(Tail(rs), seen)
  ELSE <<Head(rs).strategy>> \o FirstSeen(Tail(rs), seen \cup {Head(rs).strategy})

RECURSIVE SumField(_, _)
SumField(rs, f) == IF rs = <<>> THEN 0 ELSE Head(rs)[f] + SumField(Tail(rs), f)

\* one row of the response: stake and profit in 1/100, winRate and ROI in 1/10000
PerformanceRow(rs, strategy) ==
  LET mine == SelectSeq(rs, LAMBDA r : r.strategy = strategy)
      bets == Len(mine)
      wins == Len(SelectSeq(mine, LAMBDA r : r.outcome = "WIN"))
      losses == Len(SelectSeq(mine, LAMBDA r : r.outcome = "LOSE"))
      profitSum == SumField(mine, "profit")
      stakeSum == SumField(mine, "stake")
  IN [strategy |-> strategy, bets |-> bets, wins |-> wins, losses |-> losses,
      pushes |-> bets - wins - losses, profitSum |-> profitSum, stakeSum |-> stakeSum,
      winRate |-> IF bets # 0 THEN RoundDiv(10000 * wins, bets) ELSE 0,
      ROI |-> IF stakeSum # 0 THEN RoundDiv(10000 * profitSum, stakeSum) ELSE 0]

\* rows.sort: ROI descending, then winRate, then bets; stable
SortRows(rows) ==
  LET Before(a, b) == \/ a.ROI > b.ROI
                      \/ a.ROI = b.ROI /\ a.winRate > b.winRate
                      \/ a.ROI = b.ROI /\ a.winRate = b.winRate /\ a.bets > b.bets
      Pos(i) == 1 + Cardinality({j \in DOMAIN rows :
                                  Before(rows[j], rows[i]) \/ (~Before(rows[i], rows[j]) /\ j < i)})
  IN [k \in DOMAIN rows |-> rows[CHOOSE i \in DOMAIN rows : Pos(i) = k]]

\* the strategies array of the response, from the records of results.ndjson
performance(resultsRaw) ==
  LET order == FirstSeen(resultsRaw, {})
  IN SortRows([k \in DOMAIN order |-> PerformanceRow(resultsRaw, order[k])])

\* the outcome the pass computes for a pick of a finished fixture
SyncOutcome(p, scoreHome, scoreAway) ==
  LET side == IF p.side = NULL THEN "" ELSE p.side
  IN IF p.market = "1X2"
     THEN (IF side \notin {"home", "away", "draw"} THEN "SKIP"
           ELSE settle1x2(side, scoreHome, scoreAway))
     ELSE IF p.market = "TOTAL"
          THEN settleTotal(SyncSelection(p), p.line, scoreHome, scoreAway)
     ELSE IF p.market = "HANDICAP" THEN settleAsianHandicap(side, p.line, scoreHome, scoreAway)
     ELSE "SKIP"

\* the reason the pass gives with a SKIP outcome
SyncReason(p) ==
  LET side == IF p.side = NULL THEN "" ELSE p.side
  IN IF p.market = "1X2" THEN "missing side for 1X2 (need home/away/draw)"
     ELSE IF p.market = "TOTAL"
          THEN (IF p.line = <<>> THEN "missing/invalid line" ELSE "unknown total selection")
     ELSE IF p.market = "HANDICAP"
          THEN (IF side \notin {"home", "away"} THEN "missing side for HANDICAP (need home/away)"
                ELSE "missing/invalid line for HANDICAP")
     ELSE "unsupported/insufficient bet schema for auto-settle (need market 1X2 or TOTAL/HANDICAP+line)"

\* a pass that forgets what results.ndjson already holds
SettledIdsOf_Forgetful(resultsRaw) == {}

\* already-settled pickIds: every truthy pickId of results.ndjson
SettledIdsOf(resultsRaw) ==
  {resultsRaw[i].pickId : i \in {j \in DOMAIN resultsRaw : resultsRaw[j].pickId # EmptyId}}

\* normalized.sort((a, b) => String(b.ts).localeCompare(String(a.ts))): newest first, stable
SortNewestFirst(s) ==
  LET Pos(i) == 1 + Cardinality({j \in DOMAIN s : s[j].ts > s[i].ts \/ (s[j].ts = s[i].ts /\ j < i)})
  IN [k \in DOMAIN s |-> s[CHOOSE i \in DOMAIN s : Pos(i) = k]]

\* toInspect: the newest `limit` normalized picks that have a fixtureId
ToInspect(picksRaw, limit) ==
  LET normalized == [i \in DOMAIN picksRaw |-> normalizePickRecord(picksRaw[i], i - 1)]
  IN CHOOSE y \in {SubSeq(SortNewestFirst(n), 1, Min(limit, Len(picksRaw))) : n \in {normalized}} : TRUE

\* the loop runs synchronously over picks that are already settled or not pending:
\* the first position from i on where it reaches the awaited fixture fetch
RECURSIVE NextFetchIdx(_, _, _)
NextFetchIdx(toInspect, i, settledIds) ==
  IF i > Len(toInspect) THEN i
  ELSE IF makePickId(toInspect[i]) \in settledIds \/ toInspect[i].result \notin {"PENDING", "OPEN"}
       THEN NextFetchIdx(toInspect, i + 1, settledIds)
       ELSE i

\* ------------------------------------------------ the NDJSON server: state
NdInit ==
  /\ clock = 0
  /\ finished = {}
  /\ picksLog = <<>>
  /\ resultsLog = <<>>
  /\ scanPc = "idle"
  /\ scanQueue = <<>>
  /\ dedupSet = {}
  /\ syncPc = [p \in Procs |-> "idle"]
  /\ syncSettledIds = [p \in Procs |-> {}]
  /\ syncInspect = [p \in Procs |-> <<>>]
  /\ syncIdx = [p \in Procs |-> 1]
  /\ syncDryRun = [p \in Procs |-> FALSE]
  /\ syncSeen = [p \in Procs |-> 0]
  /\ cycleBase = 0

syncVars == <<syncPc, syncSettledIds, syncInspect, syncIdx, syncDryRun, syncSeen>>

scanVars == <<scanPc, scanQueue, dedupSet, cycleBase>>

\* the feed: a live fixture ends
FinishFixture ==
  \E f \in Fixtures \ finished :
    /\ finished' = finished \cup {f}
    /\ UNCHANGED <<clock, picksLog, resultsLog, scanVars, syncVars, v4Vars, call>>

\* the scores the feed reports for a fixture
Scores == {<<0, 0>>, <<1, 0>>, <<0, 1>>}

\* the rows of /fixtures?live=all when the live fixtures stand at the scores sc
RECURSIVE LiveFixtures(_, _)
LiveFixtures(ids, sc) ==
  IF ids = <<>> THEN <<>>
  ELSE (IF Head(ids) \in finished THEN <<>>
        ELSE <<[id |-> Head(ids), home |-> sc[Head(ids)][1], away |-> sc[Head(ids)][2]]>>)
       \o LiveFixtures(Tail(ids), sc)

\* POST /api/scan up to the fixture loop: a fresh dedupSet and the live fixtures
ScanStart ==
  /\ scanPc = "idle"
  /\ Fixtures \ finished # {}
  /\ dedupSet' = {}
  /\ cycleBase' = Len(picksLog)
  /\ \E sc \in [Fixtures -> Scores] : scanQueue' = LiveFixtures(FixtureIds, sc)
  /\ scanPc' = "loop"
  /\ UNCHANGED <<clock, finished, picksLog, resultsLog, syncVars, v4Vars, call>>

\* how many times the strategy loop over one fixture calls nowIso(): once per pick
\* base built and once per record appended
NowIsoCalls(qual, fx) ==
  (IF "late_pressure_goal" \in qual THEN 2 ELSE 0)
  + (IF "equalizer_push" \in qual /\ fx.home # fx.away THEN 2 ELSE 0)
  + (IF "under_control" \in qual THEN 2 ELSE 0)
  + (IF "handicap_pressure_home" \in qual THEN 1 + Len(chosenLines) ELSE 0)
  + (IF "handicap_pressure_away" \in qual THEN 1 + Len(chosenLines) ELSE 0)

\* how many pick bases the strategy loop over one fixture builds
PickBases(qual, fx) ==
  Cardinality(qual \ (IF fx.home = fx.away THEN {"equalizer_push"} ELSE {}))

\* POST /api/scan: the strategy loop over the next fixture (one synchronous block)
ScanFixture ==
  /\ scanPc = "loop"
  /\ \E qual \in SUBSET EnabledKeys :
       LET fx == Head(scanQueue)
           acc0 == [log |-> <<>>, dedup |-> dedupSet, n |-> 0]
       IN /\ Len(picksLog) + NowIsoCalls(qual, fx) - PickBases(qual, fx) <= MaxPicksLog
          /\ \E tickAt \in 0..(IF clock < MaxClock THEN NowIsoCalls(qual, fx) ELSE 0) :
            LET acc == EvalFixture(acc0, StrategyKeys, qual, fx, fx.id, clock, tickAt)
            IN /\ picksLog' = picksLog \o acc.log
               /\ dedupSet' = IF Tail(scanQueue) = <<>> THEN {} ELSE acc.dedup
               /\ clock' = IF tickAt > 0 THEN clock + 1 ELSE clock
  /\ scanQueue' = Tail(scanQueue)
  /\ scanPc' = IF Tail(scanQueue) = <<>> THEN "idle" ELSE "loop"
  /\ cycleBase' = IF Tail(scanQueue) = <<>> THEN 0 ELSE cycleBase
  /\ UNCHANGED <<finished, resultsLog, syncVars, v4Vars, call>>

\* what /fixtures?id= can answer for fixture f: the call throws, the row has no
\* status, or it carries a status and the goals
FetchAnswers(f) ==
  {[kind |-> k, short |-> "", home |-> 0, away |-> 0] : k \in {"throw", "missing"}}
  \cup (IF f \in finished
        THEN {[kind |-> "ok", short |-> sh, home |-> sc[1], away |-> sc[2]] :
               sh \in FinishedShorts, sc \in Scores}
        ELSE {[kind |-> "ok", short |-> "2H", home |-> 0, away |-> 0]})

\* what the pass appends for toInspect[i] once its fixture fetch has answered fx
SyncRecords(p, fx) ==
  LET pk == syncInspect[p][syncIdx[p]]
      isFinished == fx.short \in {"FT", "AET", "PEN"}
      outcome == SyncOutcome(pk, fx.home, fx.away)
  IN IF fx.kind # "ok" \/ ~isFinished \/ outcome = "SKIP"
     THEN <<>>
     ELSE <<[type |-> "result", pickId |-> makePickId(pk),
             fixtureId |-> pk.fixtureId, strategy |-> pk.strategy, market |-> pk.market,
             side |-> pk.side, selection |-> pk.selection, line |-> pk.line,
             outcome |-> outcome, ts_pick |-> pk.ts,
             \* the scanner's picks carry no odds and no stake (or stake 1)
             profit |-> profitForOutcome(outcome, <<>>, <<>>),
             by |-> p]>>

\* the request's locals once the loop has reached position i: they are gone when
\* the loop has run off the end of toInspect and the response is sent
SyncLocals(p, i, settledIds, toInspect, dryRun, seen) ==
  LET done == i > Len(toInspect)
  IN /\ syncPc' = [syncPc EXCEPT ![p] = IF done THEN "idle" ELSE "fetch"]
     /\ syncIdx' = [syncIdx EXCEPT ![p] = IF done THEN 1 ELSE i]
     /\ syncSettledIds' = [syncSettledIds EXCEPT ![p] = IF done THEN {} ELSE settledIds]
     /\ syncInspect' = [syncInspect EXCEPT ![p] = IF done THEN <<>> ELSE toInspect]
     /\ syncDryRun' = [syncDryRun EXCEPT ![p] = IF done THEN FALSE ELSE dryRun]
     /\ syncSeen' = [syncSeen EXCEPT ![p] = IF done THEN 0 ELSE seen]

\* if (!dryRun) appendNdjson(RESULTS_LOG, resultRecord), on a dry run as well
appendResults_Always(log, records, dryRun) == log \o records

\* if (!dryRun) appendNdjson(RESULTS_LOG, resultRecord)
appendResults(log, records, dryRun) == IF dryRun THEN log ELSE log \o records

\* POST /api/results/sync up to its first awaited fixture fetch, for a request
\* body that carries `limit` and `dryRun`: what the handler does to its own state
SyncBeginLocals(p, limit, dryRun) ==
  /\ syncPc[p] = "idle"
  /\ LET settledIds == SettledIdsOf(resultsLog)
         toInspect == ToInspect(picksLog, limit)
     IN SyncLocals(p, NextFetchIdx(toInspect, 1, settledIds), settledIds, toInspect,
                   dryRun, Len(resultsLog))
  /\ UNCHANGED <<clock, finished, picksLog, resultsLog, scanVars, v4Vars>>

SyncBegin(p, limit, dryRun) == SyncBeginLocals(p, limit, dryRun) /\ UNCHANGED call

\* the limits a request asks for: a window of one pick, or none (the default)
SyncLimits == {1, DefaultLimit}

\* POST /api/results/sync up to its first awaited fixture fetch
SyncStart(p) == \E limit \in SyncLimits, dryRun \in BOOLEAN : SyncBegin(p, limit, dryRun)

\* POST /api/results/sync: the fixture fetch answers fx; settle the pick, append
\* its result record unless dryRun, and run on to the next fetch or to the response
SyncAnsweredLocals(p, fx) ==
  /\ syncPc[p] = "fetch"
  /\ resultsLog' = appendResults(resultsLog, SyncRecords(p, fx), syncDryRun[p])
  /\ SyncLocals(p, NextFetchIdx(syncInspect[p], syncIdx[p] + 1, syncSettledIds[p]),
                syncSettledIds[p], syncInspect[p], syncDryRun[p], syncSeen[p])
  /\ UNCHANGED <<clock, finished, picksLog, scanVars, v4Vars>>

SyncAnswered(p, fx) == SyncAnsweredLocals(p, fx) /\ UNCHANGED call

\* POST /api/results/sync: the awaited fixture fetch answers
SyncFetched(p) ==
  /\ syncPc[p] = "fetch"
  /\ \E fx \in FetchAnswers(syncInspect[p][syncIdx[p]].fixtureId) : SyncAnswered(p, fx)

\* the answers of /fixtures?id= that the reporting passes are run against: the
\* call throws, or it answers the fixture's row (FT when it has finished)
ReportAnswers(f) ==
  {a \in FetchAnswers(f) : a.kind # "missing" /\ a.short \notin {"AET", "PEN"} /\ a.away = 0}

\* POST /api/results/sync up to its first awaited fixture fetch; `call` keeps the
\* request, the logs it read and, after a dry run, that run's request and response
SyncReportStart(p) ==
  \E limit \in SyncLimits, dryRun \in BOOLEAN :
    /\ SyncBeginLocals(p, limit, dryRun)
    /\ call' = [fn |-> "sync",
                args |-> [dryRun |-> dryRun, limit |-> limit, picks |-> picksLog,
                          results |-> resultsLog, answers |-> <<>>,
                          prev |-> IF call.fn = "sync" /\ call.args.dryRun
                                   THEN <<[limit |-> call.args.limit, picks |-> call.args.picks,
                                           results |-> call.args.results,
                                           answers |-> call.args.answers, out |-> call.out]>>
                                   ELSE <<>>],
                out |-> <<>>]

\* POST /api/results/sync: the awaited fixture fetch answers; settledOut.push(resultRecord)
SyncReportFetched(p) ==
  /\ syncPc[p] = "fetch"
  /\ \E fx \in ReportAnswers(syncInspect[p][syncIdx[p]].fixtureId) :
       /\ SyncAnsweredLocals(p, fx)
       /\ call' = [call EXCEPT !.args.answers = Append(@, fx),
                               !.out = @ \o SyncRecords(p, fx)]

\* =========================================================== the v4 server
\* Units: prices in 1/100, probabilities and edges in 1/10000, expected goals in
\* 1/10, profit in 1/100 of a unit, Date.now() and timestamps in minutes.

\* the fixtures the v4 feed knows, in the order /fixtures?live=all lists them
V4FixtureIds == <<1, 2>>

V4Fixtures == {V4FixtureIds[i] : i \in DOMAIN V4FixtureIds}

DEDUP_CFG == [cooldownMin |-> 8, minEdgeDelta |-> 100, minPriceDelta |-> 5]

\* the cooldown in milliseconds, the unit of nowIso()
CooldownMs == DEDUP_CFG.cooldownMin * 60000

EV_CONFIG ==
  [minEdge |-> 200, kellyFraction |-> 50, stakeMin |-> 25, stakeMax |-> 150,
   tiers |-> <<[name |-> "A", min |-> 6200], [name |-> "B", min |-> 5600],
               [name |-> "C", min |-> 5200]>>]

RISK_CONFIG == [dailyLossLimit |-> -300, maxConsecutiveLose |-> 4]

\* STRATEGIES: the strategies whose `enabled` is not false in strategies_current.json
STRATEGIES == {"attack_pressure", "over_momentum"}

\* a clamp that lets every value through
clamp_Open(v, a, b) == v

clamp(v, a, b) == Max(a, Min(b, v))

\* x ?? 0 for a number that may be null (<<>>)
OrZero(x) == IF x = <<>> THEN 0 ELSE x[1]

NoOdds == [has |-> FALSE, homeOdd |-> 0, awayOdd |-> 0]

NoStats == [sogH |-> 0, sogA |-> 0, possH |-> 0, possA |-> 0, xgH |-> 0, xgA |-> 0]

choosePrice(odds, betSide) ==
  IF ~odds.has THEN <<>>
  ELSE IF betSide = "home" THEN <<odds.homeOdd>>
  ELSE IF betSide = "away" THEN <<odds.awayOdd>>
  ELSE <<>>

pickKey(p) == <<p.fixtureId, p.strategy, p.betSide>>

\* allowEmit with the map passed in and handed back: [ret, map]
allowEmit_CheckOnly(map, p, nowMs) ==
  LET key == pickKey(p)
      prev == map[key]
      elapsedMin == nowMs - prev.tsMs
      edgeDelta == Abs(OrZero(p.edge) - OrZero(prev.edge))
      priceDelta == Abs(OrZero(p.priceTaken) - OrZero(prev.price))
  IN IF key \notin DOMAIN map THEN [ret |-> TRUE, map |-> map]
     ELSE [ret |-> elapsedMin >= DEDUP_CFG.cooldownMin
                   /\ (edgeDelta >= DEDUP_CFG.minEdgeDelta \/ priceDelta >= DEDUP_CFG.minPriceDelta),
           map |-> map]

allowEmit_AnyCondition(map, p, nowMs) ==
  LET key == pickKey(p)
      entry == [tsMs |-> nowMs, edge |-> <<OrZero(p.edge)>>, price |-> p.priceTaken]
      set == [k \in DOMAIN map \cup {key} |-> IF k = key THEN entry ELSE map[k]]
      prev == map[key]
      elapsedMin == nowMs - prev.tsMs
      edgeDelta == Abs(OrZero(p.edge) - OrZero(prev.edge))
      priceDelta == Abs(OrZero(p.priceTaken) - OrZero(prev.price))
  IN IF key \notin DOMAIN map THEN [ret |-> TRUE, map |-> set]
     ELSE IF elapsedMin >= DEDUP_CFG.cooldownMin
             \/ edgeDelta >= DEDUP_CFG.minEdgeDelta \/ priceDelta >= DEDUP_CFG.minPriceDelta
          THEN [ret |-> TRUE, map |-> set]
          ELSE [ret |-> FALSE, map |-> map]

allowEmit_CooldownOnly(map, p, nowMs) ==
  LET key == pickKey(p)
      entry == [tsMs |-> nowMs, edge |-> <<OrZero(p.edge)>>, price |-> p.priceTaken]
      set == [k \in DOMAIN map \cup {key} |-> IF k = key THEN entry ELSE map[k]]
      prev == map[key]
      elapsedMin == nowMs - prev.tsMs
  IN IF key \notin DOMAIN map THEN [ret |-> TRUE, map |-> set]
     ELSE IF elapsedMin >= DEDUP_CFG.cooldownMin
          THEN [ret |-> TRUE, map |-> set]
          ELSE [ret |-> FALSE, map |-> map]

allowEmit(map, p, nowMs) ==
  LET key == pickKey(p)
      entry == [tsMs |-> nowMs, edge |-> <<OrZero(p.edge)>>, price |-> p.priceTaken]
      set == [k \in DOMAIN map \cup {key} |-> IF k = key THEN entry ELSE map[k]]
      prev == map[key]
      elapsedMin == nowMs - prev.tsMs
      edgeDelta == Abs(OrZero(p.edge) - OrZero(prev.edge))
      priceDelta == Abs(OrZero(p.priceTaken) - OrZero(prev.price))
  IN IF key \notin DOMAIN map THEN [ret |-> TRUE, map |-> set]
     ELSE IF elapsedMin >= DEDUP_CFG.cooldownMin
             /\ (edgeDelta >= DEDUP_CFG.minEdgeDelta \/ priceDelta >= DEDUP_CFG.minPriceDelta)
          THEN [ret |-> TRUE, map |-> set]
          ELSE [ret |-> FALSE, map |-> map]

modelProbFromContext(strategy, ctx) ==
  LET p0 == 5400
      p1 == IF strategy = "attack_pressure"
            THEN p0 + 400 + clamp(ctx.sogDiff * 150 + ctx.xgDiff * 80, -600, 1000)
            ELSE p0
      p2 == IF strategy = "one_side_attack"
            THEN p1 + 300 + clamp(ctx.sogDiff * 200, -500, 800)
            ELSE p1
      p3 == IF strategy = "anti_price"
            THEN p2 + (IF ctx.favByOdds # NULL THEN 300 ELSE 0) + clamp(ctx.xgDiff * 70, -500, 900)
            ELSE p2
      p4 == IF strategy \in {"over75", "over_momentum", "live_xg"}
            THEN 5200 + clamp((ctx.sogTotal - 8) * 100 + (ctx.xGTotal - 16) * 80, -500, 1200)
            ELSE p3
      p5 == IF strategy \in {"favorite_comeback", "pp_index"} THEN p4 + 300 ELSE p4
      p6 == IF ctx.minute >= 70 THEN p5 + 100 ELSE p5
      p7 == IF ctx.fallback THEN p6 - 300 ELSE p6
  IN clamp(p7, 5000, 7000)

\* the first tier whose minimum the probability reaches, else "C"
RECURSIVE TierOf(_, _)
TierOf(tiers, modelProb) ==
  IF tiers = <<>> THEN "C"
  ELSE IF modelProb >= Head(tiers).min THEN Head(tiers).name
  ELSE TierOf(Tail(tiers), modelProb)

\* edge = modelProb - 1 / priceTaken; the pick stores edge.toFixed(4).
\* stakeUnits (in 1/100) is the exact fraction <<numerator, denominator>>:
\* kellyRaw = edge / (priceTaken - 1) = edgeTimesPrice / kellyDen
evPackFor1x2(priceTaken, modelProb) ==
  IF priceTaken = <<>> \/ OrZero(priceTaken) <= 100
  THEN [edge |-> <<>>, stakeUnits |-> <<>>, tier |-> "C", edge_ok |-> FALSE]
  ELSE LET price == priceTaken[1]
           edgeTimesPrice == modelProb * price - 1000000
           kellyDen == 100 * price * (price - 100)
           kelly == clamp(edgeTimesPrice, 0, kellyDen)
       IN [edge |-> <<RoundDiv(edgeTimesPrice, price)>>,
           stakeUnits |-> <<clamp(kelly * EV_CONFIG.kellyFraction,
                                  EV_CONFIG.stakeMin * kellyDen, EV_CONFIG.stakeMax * kellyDen),
                            kellyDen>>,
           tier |-> TierOf(EV_CONFIG.tiers, modelProb),
           edge_ok |-> edgeTimesPrice >= EV_CONFIG.minEdge * price]

favByOddsOf(odds) ==
  IF odds.has THEN (IF odds.homeOdd < odds.awayOdd THEN "home" ELSE "away") ELSE NULL

\* the stakeUnits a pick stores: stake0 times stakeScale when stakeScale < 1, to two
\* decimals; stakeScale is 50 or 100, so stake0 * stakeScale / 100 = n / (d * (100 / stakeScale))
stakeUnitsOf(stake0, stakeScale) ==
  IF stake0 = <<>> THEN <<>>
  ELSE IF stakeScale < 100 THEN <<RoundDiv(stake0[1], stake0[2] * (100 \div stakeScale))>>
  ELSE <<RoundDiv(stake0[1], stake0[2])>>

\* a push that ignores the risk state
push_IgnoringRisk(f, odds, stats, riskState, ts, strategy, betSide, note) ==
  LET priceTaken == choosePrice(odds, betSide)
      ctx == [minute |-> f.minute, sogTotal |-> stats.sogH + stats.sogA,
              xGTotal |-> stats.xgH + stats.xgA,
              sogDiff |-> IF betSide = "home" THEN stats.sogH - stats.sogA ELSE stats.sogA - stats.sogH,
              xgDiff |-> IF betSide = "home" THEN stats.xgH - stats.xgA ELSE stats.xgA - stats.xgH,
              favByOdds |-> favByOddsOf(odds), fallback |-> note # ""]
      Pick(modelProb, ev) ==
        <<[fixtureId |-> f.id, strategy |-> strategy, betSide |-> betSide, ts |-> ts,
           result |-> "PENDING", priceTaken |-> priceTaken, modelProb |-> modelProb,
           edge |-> ev.edge, stakeUnits |-> stakeUnitsOf(ev.stakeUnits, riskState.stakeScale),
           tier |-> ev.tier, edge_ok |-> ev.edge_ok, note |-> note,
           finalScore |-> <<>>, settledAt |-> <<>>]>>
      Priced(modelProb) ==
        CHOOSE y \in {Pick(modelProb, ev) : ev \in {evPackFor1x2(priceTaken, modelProb)}} : TRUE
  IN CHOOSE y \in {Priced(modelProbFromContext(strategy, c)) : c \in {ctx}} : TRUE

\* evaluateStrategies' inner push: the picks it adds (none while paused)
push(f, odds, stats, riskState, ts, strategy, betSide, note) ==
  IF riskState.paused THEN <<>>
  ELSE push_IgnoringRisk(f, odds, stats, riskState, ts, strategy, betSide, note)

\* f = [id, minute, gh, ga]: the picks of one fixture, in push order
evaluateStrategies(f, odds, stats, riskState, ts) ==
  LET minute == f.minute
      gh == f.gh
      ga == f.ga
      sogH == stats.sogH
      sogA == stats.sogA
      possH == stats.possH
      possA == stats.possA
      xG_H == stats.xgH
      xG_A == stats.xgA
      hasStats == sogH + sogA > 0 \/ xG_H + xG_A > 0 \/ possH + possA > 0
      favByOdds == favByOddsOf(odds)
      P(strategy, betSide, note) == push(f, odds, stats, riskState, ts, strategy, betSide, note)
      When(c, picks) == IF c THEN picks ELSE <<>>
      attack ==
        When("attack_pressure" \in STRATEGIES /\ minute >= 20 /\ minute <= 85,
          IF hasStats
          THEN When(sogH - sogA >= 3 /\ possH - possA >= 5 /\ xG_H - xG_A >= 3,
                    P("attack_pressure", "home", ""))
               \o When(sogA - sogH >= 3 /\ possA - possH >= 5 /\ xG_A - xG_H >= 3,
                       P("attack_pressure", "away", ""))
          ELSE When(favByOdds = "home" /\ gh <= ga /\ minute >= 30 /\ gh - ga >= -2,
                    P("attack_pressure", "home", "fallback_no_stats"))
               \o When(favByOdds = "away" /\ ga <= gh /\ minute >= 30 /\ ga - gh >= -2,
                       P("attack_pressure", "away", "fallback_no_stats")))
      oneSide ==
        When("one_side_attack" \in STRATEGIES /\ hasStats /\ minute >= 15 /\ minute <= 80,
          When(sogH >= sogA + 2, P("one_side_attack", "home", ""))
          \o When(sogA >= sogH + 2, P("one_side_attack", "away", "")))
      antiPrice ==
        When("anti_price" \in STRATEGIES /\ favByOdds # NULL /\ minute >= 30 /\ minute <= 80,
          IF hasStats /\ xG_H + xG_A >= 8
          THEN When(favByOdds = "home" /\ gh <= ga, P("anti_price", "home", ""))
               \o When(favByOdds = "away" /\ ga <= gh, P("anti_price", "away", ""))
          ELSE When(favByOdds = "home" /\ gh <= ga /\ minute >= 50,
                    P("anti_price", "home", "fallback_no_stats"))
               \o When(favByOdds = "away" /\ ga <= gh /\ minute >= 50,
                       P("anti_price", "away", "fallback_no_stats")))
      over75 ==
        When("over75" \in STRATEGIES /\ minute >= 72 /\ minute <= 88 /\ gh + ga <= 2,
             P("over75", "over", ""))
      overMomentum ==
        When("over_momentum" \in STRATEGIES /\ minute >= 50, P("over_momentum", "over", ""))
      liveXg ==
        When("live_xg" \in STRATEGIES /\ minute >= 35 /\ minute <= 82, P("live_xg", "goal_soon", ""))
  IN attack \o oneSide \o antiPrice \o over75 \o overMomentum \o liveXg

gradeResult(pick, fh, fa) ==
  LET diff == fh - fa
  IN IF pick.strategy \in {"attack_pressure", "one_side_attack", "favorite_comeback",
                           "pp_index", "anti_book", "anti_price"}
     THEN (IF pick.betSide = "home" THEN (IF diff > 0 THEN "WIN" ELSE "LOSE")
           ELSE IF pick.betSide = "away" THEN (IF diff < 0 THEN "WIN" ELSE "LOSE")
           ELSE "PENDING")
     ELSE IF pick.strategy = "smart_underdog"
     THEN (IF (IF pick.betSide = "home" THEN fh ELSE fa) >= (IF pick.betSide = "home" THEN fa ELSE fh)
           THEN "WIN" ELSE "LOSE")
     ELSE IF pick.strategy \in {"over75", "over_momentum", "live_xg"}
     THEN (IF fh + fa >= 2 THEN "WIN" ELSE "LOSE")
     ELSE IF pick.strategy = "ah_1_5" THEN "WIN"
     ELSE "PENDING"

\* gradeResult of the v2 server: the side-market strategies look at the home side only
gradeResultV2(pick, fh, fa) ==
  LET diff == fh - fa
  IN IF pick.strategy \in {"attack_pressure", "one_side_attack", "favorite_comeback",
                           "pp_index", "anti_book", "anti_price"}
     THEN (IF diff > 0 THEN "WIN" ELSE "LOSE")
     ELSE IF pick.strategy = "smart_underdog"
     THEN (IF (IF pick.betSide = "home" THEN fh ELSE fa) >= (IF pick.betSide = "home" THEN fa ELSE fh)
           THEN "WIN" ELSE "LOSE")
     ELSE IF pick.strategy \in {"over75", "over_momentum", "live_xg"}
     THEN (IF fh + fa >= 2 THEN "WIN" ELSE "LOSE")
     ELSE IF pick.strategy = "ah_1_5" THEN "WIN"
     ELSE "PENDING"

computeROI(result, priceTaken) ==
  IF result = "WIN" /\ priceTaken # <<>> THEN priceTaken[1] - 100
  ELSE IF result = "LOSE" THEN -100
  ELSE 0

\* [...picks].sort((a, b) => a.ts.localeCompare(b.ts)): oldest first, stable
SortOldestFirst(s) ==
  LET Pos(i) == 1 + Cardinality({j \in DOMAIN s : s[j].ts < s[i].ts \/ (s[j].ts = s[i].ts /\ j < i)})
  IN [k \in DOMAIN s |-> s[CHOOSE i \in DOMAIN s : Pos(i) = k]]

\* a loop in which a WIN does not reset the streak
RECURSIVE RiskFold_NoReset(_, _, _, _)
RiskFold_NoReset(ordered, finals, i, acc) ==
  IF i > Len(ordered) THEN acc
  ELSE LET p == ordered[i]
           fr == finals[p.fixtureId]
           res == gradeResult(p, fr.fh, fr.fa)
           next == IF ~fr.final \/ res \notin {"WIN", "LOSE"}
                   THEN acc
                   ELSE [pnl |-> acc.pnl + computeROI(res, p.priceTaken),
                         consec |-> IF res = "LOSE" THEN acc.consec + 1 ELSE acc.consec]
       IN CHOOSE y \in {RiskFold_NoReset(ordered, finals, i + 1, a) : a \in {next}} : TRUE

\* the pnl / consec loop of refreshRiskSnapshot over the ordered picks
RECURSIVE RiskFold(_, _, _, _)
RiskFold(ordered, finals, i, acc) ==
  IF i > Len(ordered) THEN acc
  ELSE LET p == ordered[i]
           fr == finals[p.fixtureId]
           res == gradeResult(p, fr.fh, fr.fa)
           next == IF ~fr.final \/ res \notin {"WIN", "LOSE"}
                   THEN acc
                   ELSE [pnl |-> acc.pnl + computeROI(res, p.priceTaken),
                         consec |-> IF res = "LOSE" THEN acc.consec + 1 ELSE 0]
       IN CHOOSE y \in {RiskFold(ordered, finals, i + 1, a) : a \in {next}} : TRUE

\* a stakeScale that is reduced only above the ceiling
stakeScaleOf_AboveCeiling(consec) == IF consec > RISK_CONFIG.maxConsecutiveLose THEN 50 ELSE 100

\* stakeScale: consec >= RISK_CONFIG.maxConsecutiveLose ? 0.5 : 1.0, in 1/100
stakeScaleOf(consec) == IF consec >= RISK_CONFIG.maxConsecutiveLose THEN 50 ELSE 100

\* the snapshot refreshRiskSnapshot stores, from the picks it read and the fixture
\* rows it fetched (failed = the fixtures whose fetch threw)
RiskSnapshotOf(picks, rows, failed) ==
  LET finals == [f \in V4Fixtures |->
                   [final |-> f \notin failed /\ rows[f].short = "FT",
                    fh |-> rows[f].fh, fa |-> rows[f].fa]]
      Snapshot(r) ==
        [pnl |-> r.pnl, consecLose |-> r.consec,
         paused |-> r.pnl <= RISK_CONFIG.dailyLossLimit,
         stakeScale |-> stakeScaleOf(r.consec)]
      Fold(fin, ordered) ==
        CHOOSE y \in {Snapshot(r) : r \in {RiskFold(ordered, fin, 1, [pnl |-> 0, consec |-> 0])}} : TRUE
  IN CHOOSE y \in {Fold(fin, ordered) : fin \in {finals}, ordered \in {SortOldestFirst(picks)}} : TRUE

\* a loop that takes no pick for a home/away pick
is1x2_Never(p) == FALSE

is1x2(p) == p.betSide \in {"home", "away"}

\* the pick loop of GET /api/scan from its current position up to the next awaited
\* askAI call or to the end of the picks: [map, calls, drops, emits, cur, rest]
RECURSIVE RunPickLoop(_, _, _, _, _, _)
RunPickLoop(acc, picks, i, nowMs, by, logged) ==
  IF i > Len(picks) THEN [acc EXCEPT !.cur = <<>>, !.rest = <<>>]
  ELSE LET p == picks[i]
           hist == {k \in DOMAIN logged : logged[k].key = pickKey(p)}
           Call(r) == [key |-> pickKey(p), at |-> nowMs, edge |-> OrZero(p.edge),
                       price |-> OrZero(p.priceTaken), by |-> by, ret |-> r.ret,
                       prev |-> IF hist = {} THEN <<>>
                                ELSE <<logged[CHOOSE k \in hist : \A j \in hist : j <= k]>>]
           emit == [key |-> pickKey(p), at |-> nowMs, edge |-> OrZero(p.edge),
                    price |-> OrZero(p.priceTaken), by |-> by]
           After(r) ==
             IF r.ret
             THEN [map |-> r.map, calls |-> Append(acc.calls, Call(r)), drops |-> acc.drops,
                   emits |-> Append(acc.emits, emit), cur |-> <<p>>,
                   rest |-> SubSeq(picks, i + 1, Len(picks))]
             ELSE CHOOSE y \in {RunPickLoop(a, picks, i + 1, nowMs, by, logged) :
                               a \in {[acc EXCEPT !.map = r.map,
                                                  !.calls = Append(acc.calls, Call(r))]}} : TRUE
       IN IF is1x2(p) /\ ~p.edge_ok
          THEN RunPickLoop([acc EXCEPT !.drops = Append(acc.drops, p)], picks, i + 1, nowMs, by,
                           logged)
          ELSE CHOOSE y \in {After(r) : r \in {allowEmit(acc.map, p, nowMs)}} : TRUE

\* ------------------------------------------------------ v4 server: state
MaxNow  == 8     \* last value of Date.now()
MaxEmit == 2     \* picks the server can emit

\* how far the clock moves between two looks at it
Ticks == {4}

\* what the feed shows for a live fixture at scan time
MinutesFeed == {40, 75}

LiveScoresFeed == {<<0, 0>>}

OddsFeed == {NoOdds} \cup {[has |-> TRUE, homeOdd |-> h, awayOdd |-> 400] : h \in {180, 300, 305}}

\* no statistics, or the home side pressing: 4-1 shots on goal, 55-45 possession,
\* 0.8-0.3 expected goals
StatsFeed == {NoStats, [sogH |-> 4, sogA |-> 1, possH |-> 55, possA |-> 45, xgH |-> 8, xgA |-> 3]}

\* what fetchOdds and fetchFixtureStatsForFixture answer for one fixture: statistics
\* come only for a fixture that has no odds
QuoteFeed == {q \in OddsFeed \X StatsFeed : q[1] = NoOdds \/ q[2] = NoStats}

\* the fixtures that end while the server runs, and how they can end
EndingFixtures == {1}

FinalRows == {[short |-> "FT", fh |-> sc[1], fa |-> sc[2]] : sc \in {<<0, 1>>, <<2, 0>>}}

LiveRow == [short |-> "2H", fh |-> 0, fa |-> 0]

\* the server starts while the feed shows `rows` and picks.log holds `log`
V4Start(rows, log) ==
  /\ now = 0
  /\ feed = rows
  /\ pickLog = log
  /\ settledLog = <<>>
  /\ recentPickMap = [k \in {} |-> 0]
  /\ RISK_SNAPSHOT = [pnl |-> 0, consecLose |-> 0, paused |-> FALSE, stakeScale |-> 100]
  /\ emitLog = <<>>
  /\ allowCalls = <<>>
  /\ edgeDrops = <<>>
  /\ gsPc = [p \in Procs |-> "idle"]
  /\ gsRead = [p \in Procs |-> 0]
  /\ gsQueue = [p \in Procs |-> <<>>]
  /\ gsCur = [p \in Procs |-> <<>>]
  /\ gsRest = [p \in Procs |-> <<>>]
  /\ gsBlocked = [p \in Procs |-> FALSE]
  /\ gsSnap = [p \in Procs |-> <<>>]

\* every fixture is still being played when the server starts
V4Init == V4Start([f \in V4Fixtures |-> LiveRow], <<>>)

\* picks.log as an earlier run of the server left it today: the picks of two
\* evaluations of fixture 1, all still pending
EarlierLog ==
  LET risk == [pnl |-> 0, consecLose |-> 0, paused |-> FALSE, stakeScale |-> 100]
      odds == [has |-> TRUE, homeOdd |-> 300, awayOdd |-> 400]
  IN evaluateStrategies([id |-> 1, minute |-> 75, gh |-> 0, ga |-> 0], odds, NoStats, risk, 0)
     \o evaluateStrategies([id |-> 1, minute |-> 40, gh |-> 0, ga |-> 0], odds, NoStats, risk, 0)

\* picks.log as an earlier run left it today when fixture 2 has since ended 0-1:
\* an away pick at 3.00 that won, then four picks that lost (home three times, the
\* cooldown apart and at a changed price, and over once)
StreakLog ==
  LET risk == [pnl |-> 0, consecLose |-> 0, paused |-> FALSE, stakeScale |-> 100]
      HomeFav(h) == [has |-> TRUE, homeOdd |-> h, awayOdd |-> 400]
      awayFav == [has |-> TRUE, homeOdd |-> 400, awayOdd |-> 300]
      At(minute) == [id |-> 2, minute |-> minute, gh |-> 0, ga |-> 0]
  IN evaluateStrategies(At(40), awayFav, NoStats, risk, -4 * DEDUP_CFG.cooldownMin)
     \o evaluateStrategies(At(75), HomeFav(300), NoStats, risk, -3 * DEDUP_CFG.cooldownMin)
     \o SelectSeq(evaluateStrategies(At(75), HomeFav(305), NoStats, risk, -2 * DEDUP_CFG.cooldownMin),
                  is1x2)
     \o SelectSeq(evaluateStrategies(At(75), HomeFav(300), NoStats, risk, -DEDUP_CFG.cooldownMin),
                  is1x2)

\* fixture 2 has ended 0-1, fixture 1 is still being played
Fixture2Over == [f \in V4Fixtures |-> IF f = 1 THEN LiveRow ELSE [short |-> "FT", fh |-> 0, fa |-> 1]]

\* the server starts with an empty picks.log or with the one an earlier run left
InitScan ==
  /\ NdInit
  /\ \/ \E log \in {<<>>, EarlierLog} : V4Start([f \in V4Fixtures |-> LiveRow], log)
     \/ V4Start(Fixture2Over, StreakLog)
  /\ NoCall

\* time passes
Tick ==
  /\ \E d \in Ticks : now + d <= MaxNow /\ now' = now + d
  /\ allowCalls' = <<>>
  /\ edgeDrops' = <<>>
  /\ UNCHANGED <<ndVars, call, feed, pickLog, settledLog, recentPickMap, RISK_SNAPSHOT, emitLog, gsVars>>

\* the feed: a live fixture ends
EndFixture ==
  /\ \E f \in EndingFixtures, row \in FinalRows :
       /\ feed[f] = LiveRow
       /\ feed' = [feed EXCEPT ![f] = row]
  /\ allowCalls' = <<>>
  /\ edgeDrops' = <<>>
  /\ UNCHANGED <<ndVars, call, now, pickLog, settledLog, recentPickMap, RISK_SNAPSHOT, emitLog, gsVars>>

\* the feed: a live fixture ends after extra time or on penalties
ExtraTimeRows == {[short |-> sh, fh |-> 2, fa |-> 1] : sh \in {"AET", "PEN"}}

EndFixtureAfterExtraTime ==
  /\ \E f \in EndingFixtures, row \in ExtraTimeRows :
       /\ feed[f] = LiveRow
       /\ feed' = [feed EXCEPT ![f] = row]
  /\ allowCalls' = <<>>
  /\ edgeDrops' = <<>>
  /\ UNCHANGED <<ndVars, call, now, pickLog, settledLog, recentPickMap, RISK_SNAPSHOT, emitLog, gsVars>>

\* GET /api/scan enters refreshRiskSnapshot, which reads picks.log
GsStart(p) ==
  /\ gsPc[p] = "idle"
  /\ gsPc' = [gsPc EXCEPT ![p] = "risk"]
  /\ gsRead' = [gsRead EXCEPT ![p] = Len(pickLog)]
  /\ gsBlocked' = [gsBlocked EXCEPT ![p] = FALSE]
  /\ allowCalls' = <<>>
  /\ edgeDrops' = <<>>
  /\ UNCHANGED <<ndVars, call, now, feed, pickLog, settledLog, recentPickMap, RISK_SNAPSHOT, emitLog,
                 gsQueue, gsCur, gsRest, gsSnap>>

\* refreshRiskSnapshot: the fixture fetches have answered; store the snapshot
GsRisk(p) ==
  /\ gsPc[p] = "risk"
  /\ \E failed \in SUBSET {pickLog[i].fixtureId : i \in 1..gsRead[p]} :
       RISK_SNAPSHOT' = RiskSnapshotOf(SubSeq(pickLog, 1, gsRead[p]), feed, failed)
  /\ gsSnap' = [gsSnap EXCEPT ![p] = <<[paused |-> RISK_SNAPSHOT'.paused,
                                         stakeScale |-> RISK_SNAPSHOT'.stakeScale]>>]
  /\ gsPc' = [gsPc EXCEPT ![p] = "live"]
  /\ gsRead' = [gsRead EXCEPT ![p] = 0]
  /\ allowCalls' = <<>>
  /\ edgeDrops' = <<>>
  /\ UNCHANGED <<ndVars, call, now, feed, pickLog, settledLog, recentPickMap, emitLog,
                 gsQueue, gsCur, gsRest, gsBlocked>>

\* fetchFixturesLive answers (or throws: the request ends with status "error")
GsLive(p) ==
  /\ gsPc[p] = "live"
  /\ \E ok \in BOOLEAN :
       LET fixtures == IF ok THEN SelectSeq(V4FixtureIds, LAMBDA f : feed[f] = LiveRow) ELSE <<>>
       IN /\ gsQueue' = [gsQueue EXCEPT ![p] = fixtures]
          /\ gsPc' = [gsPc EXCEPT ![p] = IF fixtures = <<>> THEN "idle" ELSE "eval"]
          /\ gsSnap' = [gsSnap EXCEPT ![p] = IF fixtures = <<>> THEN <<>> ELSE gsSnap[p]]
  /\ allowCalls' = <<>>
  /\ edgeDrops' = <<>>
  /\ UNCHANGED <<ndVars, call, now, feed, pickLog, settledLog, recentPickMap, RISK_SNAPSHOT, emitLog,
                 gsRead, gsCur, gsRest, gsBlocked>>

\* where the request goes once the pick loop has run to r
GsAfterLoop(p, r, queue) ==
  /\ recentPickMap' = r.map
  /\ emitLog' = emitLog \o r.emits
  /\ allowCalls' = r.calls
  /\ edgeDrops' = r.drops
  /\ gsCur' = [gsCur EXCEPT ![p] = r.cur]
  /\ gsRest' = [gsRest EXCEPT ![p] = r.rest]
  /\ gsQueue' = [gsQueue EXCEPT ![p] = queue]
  /\ gsPc' = [gsPc EXCEPT ![p] = IF r.cur # <<>> THEN "ai"
                                 ELSE IF queue = <<>> THEN "idle" ELSE "eval"]
  /\ gsSnap' = [gsSnap EXCEPT ![p] = IF r.cur = <<>> /\ queue = <<>> THEN <<>> ELSE gsSnap[p]]

\* picks some request still has to take through allowEmit
InFlight == Len(gsRest[1]) + Len(gsRest[2])

\* GET /api/scan: the body of the fixture loop for the next fixture, once fetchOdds
\* and fetchFixtureStatsForFixture have returned odds and stats: evaluate it under
\* the current RISK_SNAPSHOT and run the pick loop up to the first askAI
GsEvaluate(p, minute, sc, odds, stats) ==
  LET f == [id |-> Head(gsQueue[p]), minute |-> minute, gh |-> sc[1], ga |-> sc[2]]
      open == evaluateStrategies(f, odds, stats, [RISK_SNAPSHOT EXCEPT !.paused = FALSE], now)
  IN \E picks \in {evaluateStrategies(f, odds, stats, RISK_SNAPSHOT, now)} :
     \E r \in {RunPickLoop([map |-> recentPickMap, calls |-> <<>>, drops |-> <<>>, emits |-> <<>>,
                            cur |-> <<>>, rest |-> <<>>], picks, 1, now, p, emitLog)} :
       /\ Len(emitLog) + InFlight + Len(r.emits) + Len(r.rest) <= MaxEmit
       /\ GsAfterLoop(p, r, Tail(gsQueue[p]))
       /\ gsBlocked' = [gsBlocked EXCEPT ![p] = RISK_SNAPSHOT.paused /\ open # <<>>]

\* GET /api/scan: odds and statistics of the next fixture have answered; evaluate
\* it under the current RISK_SNAPSHOT and run the pick loop up to the first askAI
GsEval(p) ==
  /\ gsPc[p] = "eval"
  /\ \E minute \in MinutesFeed, sc \in LiveScoresFeed, q \in QuoteFeed :
       GsEvaluate(p, minute, sc, q[1], q[2])
  /\ UNCHANGED <<ndVars, call, now, feed, pickLog, settledLog, RISK_SNAPSHOT, gsRead>>

\* what the upstream /odds and /fixtures/statistics calls can answer on a cache
\* miss: the call throws, or it answers (with no rows: NoOdds / NoStats)
OddsAnswers ==
  {[kind |-> "throw", data |-> NoOdds]} \cup {[kind |-> "ok", data |-> o] : o \in OddsFeed}

StatsAnswers ==
  {[kind |-> "throw", data |-> NoStats]} \cup {[kind |-> "ok", data |-> st] : st \in StatsFeed}

\* a fetchOdds without its try / catch: the exception of api.get leaves the function
fetchOdds_Rethrow(answer) == [thrown |-> answer.kind = "throw", data |-> answer.data]

\* fetchOdds on a cache miss: null when api.get throws or answers no rows
fetchOdds(answer) ==
  [thrown |-> FALSE, data |-> IF answer.kind = "throw" THEN NoOdds ELSE answer.data]

\* fetchFixtureStatsForFixture on a cache miss: {homeStats: [], awayStats: []} when
\* api.get throws, which getStat reads as 0 throughout
fetchFixtureStatsForFixture(answer) ==
  [thrown |-> FALSE, data |-> IF answer.kind = "throw" THEN NoStats ELSE answer.data]

\* GET /api/scan: the catch of the fixture loop body: the fixture is passed over
GsCatch(p) ==
  /\ GsAfterLoop(p, [map |-> recentPickMap, calls |-> <<>>, drops |-> <<>>, emits |-> <<>>,
                     cur |-> <<>>, rest |-> <<>>], Tail(gsQueue[p]))
  /\ UNCHANGED gsBlocked

\* GET /api/scan: the body of the fixture loop for the next fixture, from the
\* answers of the two upstream calls on; `call` keeps the answers
GsEvalFetch(p) ==
  /\ gsPc[p] = "eval"
  /\ \E minute \in MinutesFeed, sc \in LiveScoresFeed, oa \in OddsAnswers, sa \in StatsAnswers :
       LET odds == fetchOdds(oa)
           stats == fetchFixtureStatsForFixture(sa)
       IN /\ oa.data = NoOdds \/ sa.data = NoStats
          /\ IF odds.thrown \/ stats.thrown
             THEN GsCatch(p)
             ELSE GsEvaluate(p, minute, sc, odds.data, stats.data)
          /\ call' = [fn |-> "scanFixture",
                      args |-> [fixture |-> Head(gsQueue[p]), minute |-> minute, sc |-> sc,
                                odds |-> oa, stats |-> sa],
                      out |-> <<>>]
  /\ UNCHANGED <<ndVars, now, feed, pickLog, settledLog, RISK_SNAPSHOT, gsRead>>

\* GET /api/scan: askAI has answered; logPick the pick and run the loop on
GsAi(p) ==
  /\ gsPc[p] = "ai"
  /\ pickLog' = Append(pickLog, gsCur[p][1])
  /\ \E r \in {RunPickLoop([map |-> recentPickMap, calls |-> <<>>, drops |-> <<>>, emits |-> <<>>,
                            cur |-> <<>>, rest |-> <<>>], gsRest[p], 1, now, p, emitLog)} :
       GsAfterLoop(p, r, gsQueue[p])
  /\ UNCHANGED <<ndVars, call, now, feed, settledLog, RISK_SNAPSHOT, gsRead, gsBlocked>>


\* ================================================== the settlement scripts
MaxLogged  == 2    \* picks in picks.log when the scripts run
MaxSettled == 3    \* records picks_settled.log can hold

\* settle.js: a draw loses
settleTeamBet(pickSide, finalScore) ==
  IF pickSide = "home" THEN (IF finalScore.home > finalScore.away THEN "WIN" ELSE "LOSE")
  ELSE IF pickSide = "away" THEN (IF finalScore.away > finalScore.home THEN "WIN" ELSE "LOSE")
  ELSE "INVALID"

\* the line 2.5 that both scripts fall back to, in quarter goals
DefaultOuLine == 10

\* settle.js: line (in quarter goals) defaults to 2.5 and runSettle never passes it
settleOverUnder(pickSide, finalScore, line) ==
  LET total == 4 * (finalScore.home + finalScore.away)
  IN IF pickSide = "over" THEN (IF total > line THEN "WIN" ELSE "LOSE")
     ELSE IF pickSide = "under" THEN (IF total < line THEN "WIN" ELSE "LOSE")
     ELSE "INVALID"

\* part_000: line = pick.ouLine || 2.5; the picks the v4 server logs carry no
\* ouLine, and a line of 0 is falsy
settlePick(pick, finalScore) ==
  LET line == IF "ouLine" \in DOMAIN pick /\ pick.ouLine # <<>> /\ pick.ouLine[1] # 0
              THEN pick.ouLine[1] ELSE DefaultOuLine
      total == 4 * (finalScore.home + finalScore.away)
  IN IF pick.betSide = "home" THEN (IF finalScore.home > finalScore.away THEN "WIN" ELSE "LOSE")
     ELSE IF pick.betSide = "away" THEN (IF finalScore.away > finalScore.home THEN "WIN" ELSE "LOSE")
     ELSE IF pick.betSide = "over" THEN (IF total > line THEN "WIN" ELSE "LOSE")
     ELSE IF pick.betSide = "under" THEN (IF total < line THEN "WIN" ELSE "LOSE")
     ELSE "INVALID"

\* fetchFinalResult / fetchFinalScore: null when the call fails, else the row
fetchFinalResult(fixtureId, failed) ==
  IF fixtureId \in failed THEN <<>>
  ELSE <<[home |-> feed[fixtureId].fh, away |-> feed[fixtureId].fa,
          status |-> feed[fixtureId].short]>>

\* the record runSettle builds for line i of picks.log, if it settles it; srcLine
\* is history: the line of picks.log the record was built from
SettledRecord(i, failed) ==
  LET rec == pickLog[i]
      finalData == fetchFinalResult(rec.fixtureId, failed)
      score == [home |-> finalData[1].home, away |-> finalData[1].away]
      result == IF rec.betSide \in {"home", "away"} THEN settleTeamBet(rec.betSide, score)
                ELSE IF rec.betSide \in {"over", "under"}
                THEN settleOverUnder(rec.betSide, score, DefaultOuLine)
                ELSE "INVALID"
  IN IF rec.result # "PENDING" \/ finalData = <<>> THEN <<>>
     ELSE IF finalData[1].status # "FT" THEN <<>>
     ELSE <<[pick |-> [rec EXCEPT !.finalScore = <<score.home, score.away>>,
                                  !.result = result, !.settledAt = <<now>>],
             srcLine |-> i]>>

RECURSIVE SettledResults(_, _)
SettledResults(i, failed) ==
  IF i > Len(pickLog) THEN <<>>
  ELSE SettledRecord(i, failed) \o SettledResults(i + 1, failed)

\* the line updateLogs writes back for a pick
UpdatedPick(pick, failed) ==
  LET fsResult == fetchFinalResult(pick.fixtureId, failed)
  IN IF pick.result # "PENDING" THEN pick
     ELSE IF fsResult = <<>> THEN pick
     ELSE IF fsResult[1].status # "FT" THEN pick
     ELSE [pick EXCEPT !.result = settlePick(pick, fsResult[1]),
                       !.finalScore = <<fsResult[1].home, fsResult[1].away>>,
                       !.settledAt = <<now>>]

lgOthers == <<ndVars, call, now, feed, recentPickMap, RISK_SNAPSHOT, emitLog, allowCalls, edgeDrops,
              gsVars>>

\* the v4 server logs a pick of a live fixture (logPick)
LogPick ==
  /\ Len(pickLog) < MaxLogged
  /\ \E f \in V4Fixtures, minute \in MinutesFeed, sc \in LiveScoresFeed, q \in QuoteFeed :
       /\ feed[f] = LiveRow
       /\ \E picks \in {evaluateStrategies([id |-> f, minute |-> minute, gh |-> sc[1], ga |-> sc[2]],
                                            q[1], q[2], RISK_SNAPSHOT, now)} :
          \E k \in DOMAIN picks :
            /\ is1x2(picks[k]) => picks[k].edge_ok
            /\ pickLog' = Append(pickLog, picks[k])
  /\ UNCHANGED <<settledLog, lgOthers>>

\* one run of settle.js
RunSettle ==
  /\ \E failed \in SUBSET V4Fixtures :
       \E settledResults \in {SettledResults(1, failed)} :
         /\ Len(settledLog) + Len(settledResults) <= MaxSettled
         /\ settledLog' = settledLog \o settledResults
  /\ UNCHANGED <<pickLog, lgOthers>>

\* one run of the updateLogs script: picks.log is rewritten in place
UpdateLogs ==
  /\ pickLog # <<>>
  /\ \E failed \in SUBSET V4Fixtures :
       pickLog' = [i \in DOMAIN pickLog |-> UpdatedPick(pickLog[i], failed)]
  /\ UNCHANGED <<settledLog, lgOthers>>


\* ============================================ functions called on their own
MaxMinute == 120   \* last minute of play a context can carry
MaxShots  == 20    \* largest shots-on-goal total or difference
MaxXg     == 50    \* largest expected-goals total or difference, in 1/10

\* every strategy identifier the server knows, and one it does not know
StrategyIds ==
  {"attack_pressure", "one_side_attack", "anti_price", "over75", "over_momentum", "live_xg",
   "favorite_comeback", "pp_index", "smart_underdog", "ah_1_5", "unknown"}

\* contexts at and around every threshold of modelProbFromContext
Contexts ==
  [minute : {0, 69, 70, MaxMinute}, sogTotal : {0, 8, MaxShots}, xGTotal : {0, 16, MaxXg},
   sogDiff : {-MaxShots, 0, 3, MaxShots}, xgDiff : {-MaxXg, 0, MaxXg},
   favByOdds : {NULL, "home"}, fallback : BOOLEAN]

ProbCalls ==
  {[fn |-> "modelProbFromContext", args |-> [strategy |-> s, ctx |-> c], out |-> <<>>] :
     s \in StrategyIds, c \in Contexts}

PushCalls ==
  {[fn |-> "push",
    args |-> [f |-> [id |-> 1, minute |-> m, gh |-> 0, ga |-> 0], odds |-> q[1], stats |-> q[2],
              strategy |-> s, betSide |-> b, note |-> n],
    out |-> <<>>] :
     m \in {0, 70, MaxMinute}, q \in OddsFeed \X StatsFeed, s \in StrategyIds,
     b \in {"home", "away", "over"}, n \in {"", "fallback_no_stats"}}

MaxGoals == 2      \* most goals a side scores

\* the final scores a settlement function is called with
FinalScores == (0..MaxGoals) \X (0..MaxGoals)

\* the strategies whose picks the v4 scanner and the v2 scanner push on side home or away
SideStrategiesV4 == {"attack_pressure", "one_side_attack", "anti_price"}

SideStrategiesV2 ==
  {"attack_pressure", "one_side_attack", "anti_price", "pp_index", "favorite_comeback", "anti_book"}

Settle1x2Calls ==
  {[fn |-> "settle1x2", args |-> [side |-> sd, scoreHome |-> sc[1], scoreAway |-> sc[2]],
    out |-> <<>>] : sd \in {"home", "away"}, sc \in FinalScores}

GradeCalls ==
  {[fn |-> "gradeResult", args |-> [pick |-> [strategy |-> st, betSide |-> sd],
                                    fh |-> sc[1], fa |-> sc[2]], out |-> <<>>] :
     st \in SideStrategiesV4, sd \in {"home", "away"}, sc \in FinalScores}
  \cup
  {[fn |-> "gradeResultV2", args |-> [pick |-> [strategy |-> st, betSide |-> sd],
                                      fh |-> sc[1], fa |-> sc[2]], out |-> <<>>] :
     st \in SideStrategiesV2, sd \in {"home", "away"}, sc \in FinalScores}

CallSettle1x2 ==
  /\ call.fn = "settle1x2"
  /\ call.out = <<>>
  /\ call' = [call EXCEPT !.out = <<settle1x2(call.args.side, call.args.scoreHome,
                                              call.args.scoreAway)>>]
  /\ UNCHANGED <<ndVars, v4Vars>>

CallGradeResult ==
  /\ call.fn = "gradeResult"
  /\ call.out = <<>>
  /\ call' = [call EXCEPT !.out = <<gradeResult(call.args.pick, call.args.fh, call.args.fa)>>]
  /\ UNCHANGED <<ndVars, v4Vars>>

CallGradeResultV2 ==
  /\ call.fn = "gradeResultV2"
  /\ call.out = <<>>
  /\ call' = [call EXCEPT !.out = <<gradeResultV2(call.args.pick, call.args.fh, call.args.fa)>>]
  /\ UNCHANGED <<ndVars, v4Vars>>

\* the numeric lines of a total-goals pick, in quarter goals: 0, 0.5, 1, ...
TotalLines == {2 * k : k \in 0..(2 * MaxGoals + 2)}

\* the values a pick's line can hold in the picks file or be passed as: a
\* number n (in quarter goals), undefined, null, or a string s
RawLines ==
  {[t |-> "number", n |-> ln, s |-> ""] : ln \in TotalLines}
  \cup {[t |-> "undefined", n |-> 0, s |-> ""], [t |-> "null", n |-> 0, s |-> ""]}
  \cup {[t |-> "string", n |-> 0, s |-> str] : str \in {"", "abc"}}

\* Number(line) as settleTotal takes it: <<>> is NaN
NumberOf(raw) ==
  IF raw.t = "number" THEN <<raw.n>>
  ELSE IF raw.t = "null" THEN <<0>>
  ELSE IF raw.t = "string" /\ raw.s = "" THEN <<0>>
  ELSE <<>>

TotalCalls ==
  {[fn |-> "settleTotal", args |-> [selection |-> sel, line |-> raw,
                                    scoreHome |-> sc[1], scoreAway |-> sc[2]], out |-> <<>>] :
     sel \in {"OVER", "UNDER"}, raw \in RawLines, sc \in FinalScores}
  \cup
  {[fn |-> "settleOverUnder", args |-> [pickSide |-> sd, finalScore |-> [home |-> sc[1], away |-> sc[2]],
                                        line |-> ln], out |-> <<>>] :
     sd \in {"over", "under"}, ln \in TotalLines, sc \in FinalScores}
  \cup
  {[fn |-> "settlePick", args |-> [pick |-> [betSide |-> sd, ouLine |-> <<ln>>],
                                   finalScore |-> [home |-> sc[1], away |-> sc[2]]], out |-> <<>>] :
     sd \in {"over", "under"}, ln \in TotalLines, sc \in FinalScores}

CallSettleTotal ==
  /\ call.fn = "settleTotal"
  /\ call.out = <<>>
  /\ call' = [call EXCEPT !.out = <<settleTotal(call.args.selection, NumberOf(call.args.line),
                                                call.args.scoreHome, call.args.scoreAway)>>]
  /\ UNCHANGED <<ndVars, v4Vars>>

CallSettleOverUnder ==
  /\ call.fn = "settleOverUnder"
  /\ call.out = <<>>
  /\ call' = [call EXCEPT !.out = <<settleOverUnder(call.args.pickSide, call.args.finalScore,
                                                    call.args.line)>>]
  /\ UNCHANGED <<ndVars, v4Vars>>

CallSettlePick ==
  /\ call.fn = "settlePick"
  /\ call.out = <<>>
  /\ call' = [call EXCEPT !.out = <<settlePick(call.args.pick, call.args.finalScore)>>]
  /\ UNCHANGED <<ndVars, v4Vars>>

\* every line the handicap strategies can emit, in quarter goals
SplitCalls ==
  {[fn |-> "_splitAsianLine", args |-> [line |-> HandicapLines(lineRange)[i]], out |-> <<>>] :
     i \in DOMAIN HandicapLines(lineRange)}

CallSplitAsianLine ==
  /\ call.fn = "_splitAsianLine"
  /\ call.out = <<>>
  /\ call' = [call EXCEPT !.out = <<splitAsianLine(call.args.line)>>]
  /\ UNCHANGED <<ndVars, v4Vars>>

HandicapCalls ==
  {[fn |-> "settleAsianHandicap",
    args |-> [side |-> sd, line |-> <<HandicapLines(lineRange)[i]>>,
              scoreHome |-> sc[1], scoreAway |-> sc[2]], out |-> <<>>] :
     sd \in {"home", "away"}, i \in DOMAIN HandicapLines(lineRange), sc \in FinalScores}

CallSettleAsianHandicap ==
  /\ call.fn = "settleAsianHandicap"
  /\ call.out = <<>>
  /\ call' = [call EXCEPT !.out = <<settleAsianHandicap(call.args.side, call.args.line,
                                                        call.args.scoreHome, call.args.scoreAway)>>]
  /\ UNCHANGED <<ndVars, v4Vars>>

Outcomes == {"WIN", "LOSE", "PUSH", "HALF_WIN", "HALF_LOSE", "SKIP"}

\* prices 1.00, 1.90, 2.50 or none; stakes 0, 0.50, 1, 2 or none
ProfitCalls ==
  {[fn |-> "profitForOutcome", args |-> [outcome |-> o, odds |-> od, stake |-> st], out |-> <<>>] :
     o \in Outcomes, od \in {<<>>, <<100>>, <<190>>, <<250>>},
     st \in {<<>>, <<0>>, <<50>>, <<100>>, <<200>>}}

CallProfitForOutcome ==
  /\ call.fn = "profitForOutcome"
  /\ call.out = <<>>
  /\ call' = [call EXCEPT !.out = <<profitForOutcome(call.args.outcome, call.args.odds,
                                                     call.args.stake)>>]
  /\ UNCHANGED <<ndVars, v4Vars>>

\* pending picks of a finished match as the settlement pass can read them from
\* the picks file: any market, with or without side, selection and line
LoosePicks ==
  [market : {"1X2", "TOTAL", "HANDICAP", "NEXT_GOAL", NULL}, side : {NULL, "home", "over"},
   selection : {"", "OVER"},
   line : {r \in RawLines : r.t # "number" \/ r.n = 2}]

SkipCalls ==
  {[fn |-> "syncSettle", args |-> [p |-> pk, scoreHome |-> sc[1], scoreAway |-> sc[2]],
    out |-> <<>>] : pk \in LoosePicks, sc \in {<<0, 0>>, <<1, 0>>}}
  \cup
  {[fn |-> "settlePick", args |-> [pick |-> [betSide |-> NULL, ouLine |-> <<>>],
                                   finalScore |-> [home |-> sc[1], away |-> sc[2]]],
    out |-> <<>>] : sc \in {<<0, 0>>, <<1, 0>>}}

\* the settlement of one pick in the loop of POST /api/results/sync
CallSyncSettle ==
  /\ call.fn = "syncSettle"
  /\ call.out = <<>>
  /\ LET pk == [call.args.p EXCEPT !.line = NumberOf(call.args.p.line)]
         outcome == SyncOutcome(pk, call.args.scoreHome, call.args.scoreAway)
     IN call' = [call EXCEPT !.out = <<[outcome |-> outcome,
                                        reason |-> IF outcome = "SKIP" THEN SyncReason(pk) ELSE ""]>>]
  /\ UNCHANGED <<ndVars, v4Vars>>

MaxResults == 2    \* result records the performance endpoint reads

\* result records: stake 0 or 1, profit -1 or +0.90
ResultRecords ==
  [strategy : {"late_pressure_goal", "under_control"}, outcome : {"WIN", "LOSE", "PUSH"},
   stake : {0, 100}, profit : {-100, 90}]

PerformanceCalls ==
  {[fn |-> "performance", args |-> [resultsRaw |-> rs], out |-> <<>>] :
     rs \in UNION {[1..n -> ResultRecords] : n \in 0..MaxResults}}

CallPerformance ==
  /\ call.fn = "performance"
  /\ call.out = <<>>
  /\ call' = [call EXCEPT !.out = <<performance(call.args.resultsRaw)>>]
  /\ UNCHANGED <<ndVars, v4Vars>>

\* a safeNumber that never takes the configured value
safeNumber_Zero(v, fallback) == 0

\* safeNumber(v, fallback) of a raw value
safeNumber(v, fallback) == IF NumberOf(v) = <<>> THEN fallback ELSE NumberOf(v)[1]

\* p.key != null
IsSet(v) == v.t \notin {"undefined", "null"}

\* the reasons of evaluateParams, each named by its threshold, in push order;
\* pressure and xgProxy in 1/100
evaluateParams(p, metrics) ==
  LET When(c, key) == IF c THEN <<key>> ELSE <<>>
      sotH == OrZero(metrics.shotsOnGoal.home)
      sotA == OrZero(metrics.shotsOnGoal.away)
  IN When(IsSet(p.minMinute) /\ metrics.minute < safeNumber(p.minMinute, 0), "minMinute")
     \o When(IsSet(p.maxMinute) /\ metrics.minute > safeNumber(p.maxMinute, 0), "maxMinute")
     \o When(IsSet(p.minPressure)
               /\ Max(metrics.pressure.home, metrics.pressure.away) < safeNumber(p.minPressure, 0),
             "minPressure")
     \o When(IsSet(p.minSOTDiff) /\ Abs(sotH - sotA) < safeNumber(p.minSOTDiff, 0), "minSOTDiff")
     \o When(IsSet(p.minSOT) /\ Max(sotH, sotA) < safeNumber(p.minSOT, 0), "minSOT")
     \o When(IsSet(p.minCornerDiff)
               /\ Abs(OrZero(metrics.corners.home) - OrZero(metrics.corners.away))
                    < safeNumber(p.minCornerDiff, 0),
             "minCornerDiff")
     \o When(IsSet(p.maxTotalShotsSum)
               /\ OrZero(metrics.shotsTotal.home) + OrZero(metrics.shotsTotal.away)
                    > safeNumber(p.maxTotalShotsSum, 0),
             "maxTotalShotsSum")
     \o When(IsSet(p.maxSOTSum) /\ sotH + sotA > safeNumber(p.maxSOTSum, 0), "maxSOTSum")
     \o When(IsSet(p.maxXgProxySum)
               /\ metrics.xgProxy.home + metrics.xgProxy.away > safeNumber(p.maxXgProxySum, 0),
             "maxXgProxySum")
     \o When(IsSet(p.maxGoalDown) /\ Abs(metrics.score.diff) > safeNumber(p.maxGoalDown, 0),
             "maxGoalDown")

\* a configured value for each threshold of a strategy's params
Thresholds ==
  [minMinute |-> 20, maxMinute |-> 80, minPressure |-> 50, minSOTDiff |-> 2, minSOT |-> 3,
   minCornerDiff |-> 2, maxTotalShotsSum |-> 10, maxSOTSum |-> 4, maxXgProxySum |-> 90,
   maxGoalDown |-> 1]

ParamKeys == DOMAIN Thresholds

RawNumber(n) == [t |-> "number", n |-> n, s |-> ""]

RawAbsent == [t |-> "undefined", n |-> 0, s |-> ""]

RawText == [t |-> "string", n |-> 0, s |-> "abc"]

\* params with any set of thresholds configured, each with a number
NumericParams ==
  {[k \in ParamKeys |-> IF k \in S THEN RawNumber(Thresholds[k]) ELSE RawAbsent] :
     S \in SUBSET ParamKeys}

\* params with one threshold malformed, alone or with every other threshold configured
MalformedParams ==
  {[k \in ParamKeys |-> IF k = bad THEN RawText
                         ELSE IF others THEN RawNumber(Thresholds[k]) ELSE RawAbsent] :
     bad \in ParamKeys, others \in BOOLEAN}

\* the statistics of a quiet match, of one at the thresholds and of a busy one
StatProfiles ==
  {[shotsOnGoal |-> [home |-> <<>>, away |-> <<>>], shotsTotal |-> [home |-> <<>>, away |-> <<>>],
    corners |-> [home |-> <<>>, away |-> <<>>],
    pressure |-> [home |-> 0, away |-> 0], xgProxy |-> [home |-> 0, away |-> 0]],
   [shotsOnGoal |-> [home |-> <<3>>, away |-> <<1>>], shotsTotal |-> [home |-> <<6>>, away |-> <<4>>],
    corners |-> [home |-> <<3>>, away |-> <<1>>],
    pressure |-> [home |-> 78, away |-> 34], xgProxy |-> [home |-> 63, away |-> 27]],
   [shotsOnGoal |-> [home |-> <<5>>, away |-> <<1>>], shotsTotal |-> [home |-> <<12>>, away |-> <<3>>],
    corners |-> [home |-> <<4>>, away |-> <<1>>],
    pressure |-> [home |-> 100, away |-> 30], xgProxy |-> [home |-> 100, away |-> 24]]}

\* metrics at, just inside and just outside the minute thresholds
MetricsRecords ==
  {[minute |-> m, score |-> [diff |-> d], shotsOnGoal |-> st.shotsOnGoal,
    shotsTotal |-> st.shotsTotal, corners |-> st.corners, pressure |-> st.pressure,
    xgProxy |-> st.xgProxy] :
     m \in {Thresholds.minMinute - 1, Thresholds.minMinute, Thresholds.maxMinute,
            Thresholds.maxMinute + 1},
     d \in {0, -1, 2}, st \in StatProfiles}

ParamsCalls ==
  {[fn |-> "evaluateParams", args |-> [params |-> ps, metrics |-> mt], out |-> <<>>] :
     ps \in NumericParams \cup MalformedParams, mt \in MetricsRecords}

CallEvaluateParams ==
  /\ call.fn = "evaluateParams"
  /\ call.out = <<>>
  /\ call' = [call EXCEPT !.out = <<evaluateParams(call.args.params, call.args.metrics)>>]
  /\ UNCHANGED <<ndVars, v4Vars>>

MaxStat == 1000    \* largest raw count the statistics feed reports

RawString(str) == [t |-> "string", n |-> 0, s |-> str]

\* pull on a string: "%" removed and trimmed, "" is null, the part before a "/"
\* is taken, then Number() and Number.isFinite
StringStat(str) ==
  CASE str = "" -> <<>>
    [] str = "55%" -> <<55>>
    [] str = "3/5" -> <<3>>
    [] OTHER -> <<>>

\* pull(statsArr, typeName) on the value found for the type (undefined when the
\* type or the team is not in the response): a finite number or null (<<>>)
pull(v) ==
  IF v.t \in {"null", "undefined"} THEN <<>>
  ELSE IF v.t = "number" THEN <<v.n>>
  ELSE StringStat(v.s)

StatKeys == {"shotsOnGoal", "shotsTotal", "corners", "yellow", "red"}

\* statsArr = <<>>: the statistics fetch failed or answered no array
extractBasicStats(statsArr) ==
  IF statsArr = <<>> THEN <<>>
  ELSE <<[k \in StatKeys |-> [home |-> pull(statsArr[1][k].home), away |-> pull(statsArr[1][k].away)]]>>

\* a clamp01 that lets every value through
clamp01_Open(x) == x

\* clamp01 in 1/100
clamp01(x) == IF x < 0 THEN 0 ELSE IF x > 100 THEN 100 ELSE x

\* the metrics record; pressure and xgProxy in 1/100
buildMetricsForFixture(fixture, statsArr) ==
  LET none == [home |-> <<>>, away |-> <<>>]
      derived == IF extractBasicStats(statsArr) = <<>> THEN [k \in StatKeys |-> none]
                 ELSE extractBasicStats(statsArr)[1]
      Pressure(side) == clamp01(OrZero(derived.shotsOnGoal[side]) * 12
                                + OrZero(derived.shotsTotal[side]) * 4
                                + OrZero(derived.corners[side]) * 6)
      XgProxy(side) == clamp01(OrZero(derived.shotsOnGoal[side]) * 15
                               + OrZero(derived.shotsTotal[side]) * 3)
  IN [fixtureId |-> fixture.id, minute |-> fixture.minute,
      score |-> [home |-> fixture.home, away |-> fixture.away, diff |-> fixture.home - fixture.away],
      shotsOnGoal |-> derived.shotsOnGoal, shotsTotal |-> derived.shotsTotal,
      corners |-> derived.corners,
      cards |-> [yellow |-> derived.yellow, red |-> derived.red],
      pressure |-> [home |-> Pressure("home"), away |-> Pressure("away")],
      xgProxy |-> [home |-> XgProxy("home"), away |-> XgProxy("away")]]

\* raw values of a statistic: negative, small, very large, missing, null, text,
\* a percentage, a fraction
RawStats ==
  {RawNumber(-5), RawNumber(3), RawNumber(MaxStat), RawAbsent,
   [t |-> "null", n |-> 0, s |-> ""], RawText, RawString("55%"), RawString("3/5")}

\* the home side over every raw value, the away side over a few
StatsResponses ==
  {<<>>}
  \cup {<<[shotsOnGoal |-> [home |-> a, away |-> d], shotsTotal |-> [home |-> b, away |-> e],
           corners |-> [home |-> c, away |-> RawAbsent],
           yellow |-> [home |-> y, away |-> RawAbsent],
           red |-> [home |-> RawAbsent, away |-> RawAbsent]]>> :
          a \in RawStats, b \in RawStats, c \in RawStats,
          d \in {RawAbsent, RawNumber(3)}, e \in {RawAbsent, RawNumber(MaxStat)},
          y \in {RawAbsent, RawNumber(1)}}

MetricsCalls ==
  {[fn |-> "buildMetricsForFixture",
    args |-> [fixture |-> [id |-> 1, minute |-> 60, home |-> 1, away |-> 0], statsArr |-> st],
    out |-> <<>>] : st \in StatsResponses}

CallBuildMetrics ==
  /\ call.fn = "buildMetricsForFixture"
  /\ call.out = <<>>
  /\ call' = [call EXCEPT !.out = <<buildMetricsForFixture(call.args.fixture, call.args.statsArr)>>]
  /\ UNCHANGED <<ndVars, v4Vars>>

\* the debug side of the strategy loop body of POST /api/scan for one enabled
\* strategy: reasons = what evaluateParams returned; what debugStats.passed and
\* debugStats.rejected grow by, the entries pushRejected adds, the picks logged
scanStrategyDebug(key, reasons, fx, dedup) ==
  LET reasons2 == reasons \o (IF key = "equalizer_push" /\ fx.home = fx.away
                              THEN <<"not trailing (score is level)">> ELSE <<>>)
      acc0 == [log |-> <<>>, dedup |-> dedup, n |-> 0]
      acc == IF reasons2 = <<>> THEN EvalStrategy(acc0, key, fx, fx.id, 0, 0) ELSE acc0
      \* `pick` is set by the late_pressure_goal, equalizer_push and under_control
      \* branches only: the handicap branches push their picks themselves
      pickSet == reasons2 = <<>> /\ key \in {"late_pressure_goal", "equalizer_push", "under_control"}
  IN [passed |-> Len(acc.log),
      rejected |-> IF pickSet THEN 0 ELSE 1,
      entries |-> IF pickSet THEN <<>> ELSE <<[strategy |-> key, reasons |-> reasons2]>>,
      picks |-> acc.log]

\* every strategy for a fixture at 0-0, 1-0 or 0-1, with thresholds that pass or
\* with one threshold reason
DebugCalls ==
  {[fn |-> "scanStrategy",
    args |-> [key |-> StrategyKeys[k], reasons |-> rs, fx |-> [id |-> 1, home |-> sc[1], away |-> sc[2]]],
    out |-> <<>>] :
     k \in DOMAIN StrategyKeys, rs \in {<<>>, <<"minute < minMinute">>}, sc \in Scores}

CallScanStrategy ==
  /\ call.fn = "scanStrategy"
  /\ call.out = <<>>
  /\ call' = [call EXCEPT !.out = <<scanStrategyDebug(call.args.key, call.args.reasons,
                                                      call.args.fx, {})>>]
  /\ UNCHANGED <<ndVars, v4Vars>>

CallModelProb ==
  /\ call.fn = "modelProbFromContext"
  /\ call.out = <<>>
  /\ call' = [call EXCEPT !.out = <<modelProbFromContext(call.args.strategy, call.args.ctx)>>]
  /\ UNCHANGED <<ndVars, v4Vars>>

CallPush ==
  /\ call.fn = "push"
  /\ call.out = <<>>
  /\ call' = [call EXCEPT !.out = <<push(call.args.f, call.args.odds, call.args.stats,
                                         RISK_SNAPSHOT, now, call.args.strategy,
                                         call.args.betSide, call.args.note)>>]
  /\ UNCHANGED <<ndVars, v4Vars>>

Init == NdInit /\ V4Init /\ NoCall

\* sync passes run one after the other
NextSync ==
  \/ FinishFixture
  \/ ScanStart
  \/ ScanFixture
  \/ SyncStart(1)
  \/ SyncFetched(1)

SpecSync == Init /\ [][NextSync]_vars

\* a pass that writes: the request body carries no dryRun
SyncStartWrite(p) == \E limit \in SyncLimits : SyncBegin(p, limit, FALSE)

\* the fixture fetch that a writing pass awaits for the pick of line k of
\* picks.ndjson answers with the fixture's row
SyncFetchedOk(p, k) ==
  /\ syncPc[p] = "fetch"
  /\ ~syncDryRun[p]
  /\ syncInspect[p][syncIdx[p]].srcLine = k
  /\ \E fx \in {a \in FetchAnswers(syncInspect[p][syncIdx[p]].fixtureId) : a.kind = "ok"} :
       SyncAnswered(p, fx)

\* POST /api/results/sync keeps being run: every awaited fixture fetch answers,
\* writing passes keep being started, and the fixture fetch a writing pass
\* makes for a pick does not fail for ever
SpecSyncLive ==
  /\ Init
  /\ [][NextSync]_vars
  /\ WF_vars(SyncFetched(1))
  /\ SF_vars(SyncStartWrite(1))
  /\ \A k \in 0..(MaxPicksLog - 1) : SF_vars(SyncFetchedOk(1, k))

\* sync passes run one after the other over logs that no scan is writing any
\* more, each request and response kept
NextSyncReport ==
  \/ NoCall /\ FinishFixture
  \/ NoCall /\ ScanStart
  \/ NoCall /\ ScanFixture
  \/ SyncReportStart(1)
  \/ SyncReportFetched(1)

SpecSyncReport == Init /\ [][NextSyncReport]_vars

\* two sync requests in flight at once
NextSyncConc ==
  \/ FinishFixture
  \/ ScanStart
  \/ ScanFixture
  \/ \E p \in Procs : SyncStart(p)
  \/ \E p \in Procs : SyncFetched(p)

SpecSyncConc == Init /\ [][NextSyncConc]_vars

\* the v4 server with one scan request at a time
NextScan ==
  \/ Tick
  \/ EndFixture
  \/ GsStart(1)
  \/ GsRisk(1)
  \/ GsLive(1)
  \/ GsEval(1)
  \/ GsAi(1)

SpecScan == InitScan /\ [][NextScan]_vars

\* the v4 server with one scan request at a time and within one cooldown, the
\* upstream answers kept
NextScanFetch ==
  \/ GsStart(1)
  \/ GsRisk(1)
  \/ GsLive(1)
  \/ GsEvalFetch(1)
  \/ GsAi(1)

SpecScanFetch == Init /\ [][NextScanFetch]_vars

\* the v4 server with two scan requests in flight at once
NextScanConc ==
  \/ Tick
  \/ \E p \in Procs : GsStart(p)
  \/ \E p \in Procs : GsRisk(p)
  \/ \E p \in Procs : GsLive(p)
  \/ \E p \in Procs : GsEval(p)
  \/ \E p \in Procs : GsAi(p)

\* the server starts when fixture 2 is already over: one live fixture
InitConc ==
  /\ NdInit
  /\ V4Start(Fixture2Over, <<>>)
  /\ NoCall

SpecScanConc == InitConc /\ [][NextScanConc]_vars

\* two scan requests in flight at once while fixture 1 can end
NextScanRisk ==
  \/ EndFixture
  \/ NextScanConc

\* the server starts when fixture 2 is already over, over the picks.log an earlier
\* run left
InitRisk ==
  /\ NdInit
  /\ V4Start(Fixture2Over, EarlierLog)
  /\ NoCall

SpecScanRisk == InitRisk /\ [][NextScanRisk]_vars

\* the settlement scripts run one after the other over the server's picks.log
NextSettle ==
  \/ Tick
  \/ EndFixture
  \/ EndFixtureAfterExtraTime
  \/ LogPick
  \/ RunSettle
  \/ UpdateLogs

\* picks.log as a run of the server with live_xg enabled left it: one pending
\* pick of fixture 1
GoalSoonLog ==
  push([id |-> 1, minute |-> 75, gh |-> 0, ga |-> 0], NoOdds, NoStats,
       [pnl |-> 0, consecLose |-> 0, paused |-> FALSE, stakeScale |-> 100], 0,
       "live_xg", "goal_soon", "")

InitSettle ==
  /\ NdInit
  /\ \E log \in {<<>>, GoalSoonLog} : V4Start([f \in V4Fixtures |-> LiveRow], log)
  /\ NoCall

SpecSettle == InitSettle /\ [][NextSettle]_vars

\* the functions called on their own, each on every input of its bounded set
NextCalls ==
  \/ CallModelProb
  \/ CallPush
  \/ CallSettle1x2
  \/ CallGradeResult
  \/ CallGradeResultV2
  \/ CallSettleTotal
  \/ CallSettleOverUnder
  \/ CallSettlePick
  \/ CallSplitAsianLine
  \/ CallSettleAsianHandicap
  \/ CallProfitForOutcome
  \/ CallSyncSettle
  \/ CallPerformance
  \/ CallEvaluateParams
  \/ CallBuildMetrics
  \/ CallScanStrategy

InitCalls ==
  /\ NdInit
  /\ V4Init
  /\ \E calls \in {ProbCalls, PushCalls, Settle1x2Calls, GradeCalls, TotalCalls, SplitCalls,
                     HandicapCalls, ProfitCalls, SkipCalls, PerformanceCalls, ParamsCalls,
                     MetricsCalls, DebugCalls} :
       call \in calls

SpecCalls == InitCalls /\ [][NextCalls]_vars

\* ---------------------------------------------------------------- claims
\* the result records a step appends to results.ndjson
NewResults == {resultsLog'[k] : k \in (Len(resultsLog) + 1)..Len(resultsLog')}

\* C1: once a non-dry-run pass has appended a result record for a pick, a sync
\* pass that starts later appends no further result record for that pick: no
\* record a pass appends carries a pickId that results.ndjson already held when
\* the pass read it.
C1_LaterPassIsNoOp ==
  [][\A r \in NewResults :
       \A i \in 1..syncSeen[r.by] : resultsLog[i].pickId # r.pickId]_vars

\* C1 witness: a later pass has run past a pick that an earlier pass settled and
\* is waiting at the fixture fetch of another pick.
C1_Witness ==
  /\ syncPc[1] = "fetch"
  /\ ~syncDryRun[1]
  /\ \E j \in 1..(syncIdx[1] - 1), i \in 1..syncSeen[1] :
       resultsLog[i].pickId = makePickId(syncInspect[1][j])

\* C2: results.ndjson holds at most one result record per pickId.
C2_OneResultPerPickId ==
  \A i, j \in DOMAIN resultsLog : i < j => resultsLog[i].pickId # resultsLog[j].pickId

\* C3: two sync requests in flight at once never both append a result record for
\* the same pick.
C3_NoDoubleSettle ==
  \A i, j \in DOMAIN resultsLog :
    resultsLog[i].pickId = resultsLog[j].pickId => resultsLog[i].by = resultsLog[j].by

\* C4: a pick that one run of the log-file settlement scripts has settled is
\* skipped by every later run: picks_settled.log never holds two settled records
\* built from the same line of picks.log.
C4_SettledOnce ==
  \A i, j \in DOMAIN settledLog : i < j => settledLog[i].srcLine # settledLog[j].srcLine

\* C5: for every pick POST /api/scan emits, makePickId of the pick's own fields
\* equals the pickId stored on the pick.
C5_PickIdRoundTrip ==
  \A i \in DOMAIN picksLog : makePickId(picksLog[i].pick) = picksLog[i].pick.pickId

\* C6: two picks for the same match, strategy and side that differ only in their
\* line have different pick identifiers.
C6_LineInPickId ==
  \A i, j \in DOMAIN picksLog :
    LET a == picksLog[i].pick
        b == picksLog[j].pick
    IN (/\ a.fixtureId = b.fixtureId /\ a.strategy = b.strategy /\ a.side = b.side
        /\ a.ts = b.ts /\ a.line # b.line)
       => makePickId(a) # makePickId(b)

\* C9: a pick emitted by one scan cycle is not emitted and logged again by a later
\* cycle for the same dedup key before the cooldown has elapsed.
C9_NoReEmissionAcrossCycles ==
  [][scanPc = "loop" =>
       \A k \in (Len(picksLog) + 1)..Len(picksLog') : \A i \in 1..cycleBase :
          makeDedupKey(picksLog[i].pick) = makeDedupKey(picksLog'[k].pick)
            => picksLog'[k].time - picksLog[i].time >= CooldownMs]_vars

\* C7: allowEmit returns true for the first pick of a key, and for a later pick of
\* the key exactly when the cooldown has elapsed since the key's last allowed
\* emission and the edge or the price differs from that emission by at least its
\* threshold.
C7_AllowEmitRule ==
  \A k \in DOMAIN allowCalls :
    LET c == allowCalls[k]
    IN c.ret = (\/ c.prev = <<>>
                \/ /\ c.at - c.prev[1].at >= DEDUP_CFG.cooldownMin
                   /\ (\/ Abs(c.edge - c.prev[1].edge) >= DEDUP_CFG.minEdgeDelta
                       \/ Abs(c.price - c.prev[1].price) >= DEDUP_CFG.minPriceDelta))

\* C7 witness: a later pick of a key is allowed after the cooldown on its price
\* delta alone, its edge delta being below the threshold.
C7_Witness ==
  \E k \in DOMAIN allowCalls :
    LET c == allowCalls[k]
    IN /\ c.ret
       /\ c.prev # <<>>
       /\ Abs(c.edge - c.prev[1].edge) < DEDUP_CFG.minEdgeDelta

\* C8: two scans never both emit a pick for the same fixture|strategy|betSide key
\* within the cooldown window, whatever the interleaving.
C8_NoDoubleEmitInCooldown ==
  \A i, j \in DOMAIN emitLog :
    (i < j /\ emitLog[i].key = emitLog[j].key)
      => emitLog[j].at - emitLog[i].at >= DEDUP_CFG.cooldownMin

\* C8 witness: a scan's allowEmit call is suppressed for the key of a pick that
\* the other scan has emitted and whose askAI call it is still awaiting.
C8_Witness ==
  \E k \in DOMAIN allowCalls :
    LET c == allowCalls[k]
    IN /\ ~c.ret
       /\ c.prev # <<>>
       /\ c.prev[1].by # c.by
       /\ gsPc[c.prev[1].by] = "ai"
       /\ pickKey(gsCur[c.prev[1].by][1]) = c.key

\* C10: when the risk state an evaluation of a scan cycle reads has paused = true,
\* the cycle emits and logs no pick from it: no pick goes to askAI, picks.log and
\* the emission index stay as they are.
C10_PausedEmitsNothing ==
  [][\A p \in Procs :
       (gsPc[p] = "eval" /\ gsQueue'[p] # gsQueue[p] /\ RISK_SNAPSHOT.paused)
         => (/\ gsPc'[p] # "ai"
             /\ pickLog' = pickLog
             /\ emitLog' = emitLog
             /\ recentPickMap' = recentPickMap)]_vars

\* C10 witness: a scan has evaluated, under a paused risk state, a fixture that
\* qualifies for a pick.
C10_Witness == \E p \in Procs : gsBlocked[p] /\ RISK_SNAPSHOT.paused

\* the positions of the records a step appends to picks.ndjson
NewPicks == (Len(picksLog) + 1)..Len(picksLog')

\* a HANDICAP pick as the scanner builds it for a line
HandicapPickOf(fixtureId, sideKey, ln) ==
  [buildPickBase(fixtureId, "handicap_pressure_" \o sideKey, 0)
     EXCEPT !.market = "HANDICAP", !.selection = IF sideKey = "home" THEN "HOME" ELSE "AWAY",
            !.side = sideKey, !.line = <<ln>>]

\* C11: two HANDICAP picks for the same match, strategy and side have the same
\* dedup key exactly when their lines are equal, for every quarter line of the
\* range and for every pair of logged picks; and a scan that logs a HANDICAP pick
\* logs one for every chosen line, none suppressing another.
C11_LineInDedupKey ==
  /\ \A f \in Fixtures, sideKey \in {"home", "away"} :
       \A l1, l2 \in {HandicapLines(lineRange)[i] : i \in DOMAIN HandicapLines(lineRange)} :
         (makeDedupKey(HandicapPickOf(f, sideKey, l1)) = makeDedupKey(HandicapPickOf(f, sideKey, l2)))
         <=> (l1 = l2)
  /\ [][/\ \A k \in NewPicks :
             LET a == picksLog'[k].pick
             IN a.market = "HANDICAP" =>
                  \A i \in DOMAIN chosenLines : \E k2 \in NewPicks :
                    LET b == picksLog'[k2].pick
                    IN /\ b.market = "HANDICAP" /\ b.fixtureId = a.fixtureId
                       /\ b.strategy = a.strategy /\ b.side = a.side
                       /\ b.line = <<chosenLines[i]>>
        /\ \A i, j \in DOMAIN picksLog' :
             LET a == picksLog'[i].pick
                 b == picksLog'[j].pick
             IN (/\ a.market = "HANDICAP" /\ b.market = "HANDICAP" /\ a.fixtureId = b.fixtureId
                 /\ a.strategy = b.strategy /\ a.side = b.side)
                => ((makeDedupKey(a) = makeDedupKey(b)) <=> (a.line = b.line))]_vars

\* C11 witness: picks.ndjson holds two HANDICAP picks of one match, strategy and
\* side on different lines.
C11_Witness ==
  \E i, j \in DOMAIN picksLog :
    LET a == picksLog[i].pick
        b == picksLog[j].pick
    IN /\ a.market = "HANDICAP" /\ b.market = "HANDICAP" /\ a.fixtureId = b.fixtureId
       /\ a.strategy = b.strategy /\ a.side = b.side /\ a.line # b.line

\* C12: once a refresh has stored paused = true, every later refresh of the same
\* day stores paused = true as well.
C12_PausedStaysPaused ==
  [][RISK_SNAPSHOT.paused => RISK_SNAPSHOT'.paused]_vars

\* the consecutive-loss streak of picks.log under the final scores `rows`: the
\* LOSE results that end the day's graded picks, oldest first
TrailingLosses(picks, rows, failed) ==
  LET ordered == SortOldestFirst(picks)
      Graded(i) == /\ ordered[i].fixtureId \notin failed
                   /\ rows[ordered[i].fixtureId].short = "FT"
                   /\ gradeResult(ordered[i], rows[ordered[i].fixtureId].fh,
                                   rows[ordered[i].fixtureId].fa) \in {"WIN", "LOSE"}
      Won(i) == gradeResult(ordered[i], rows[ordered[i].fixtureId].fh,
                            rows[ordered[i].fixtureId].fa) = "WIN"
      wins == {i \in DOMAIN ordered : Graded(i) /\ Won(i)}
      lastWin == IF wins = {} THEN 0 ELSE CHOOSE i \in wins : \A j \in wins : j <= i
  IN Cardinality({i \in DOMAIN ordered : i > lastWin /\ Graded(i)})

\* the stake of a priced pick before any scaling, in 1/100, as a fraction
FullStake(p) ==
  LET price == p.priceTaken[1]
      kellyDen == 100 * price * (price - 100)
      raw == (p.modelProb * price - 1000000) * EV_CONFIG.kellyFraction
  IN <<IF raw < EV_CONFIG.stakeMin * kellyDen THEN EV_CONFIG.stakeMin * kellyDen
       ELSE IF raw > EV_CONFIG.stakeMax * kellyDen THEN EV_CONFIG.stakeMax * kellyDen
       ELSE raw, kellyDen>>

C14_CycleReadsOwnSnapshot ==
  [][\A p \in Procs :
       (gsPc[p] = "eval" /\ gsQueue'[p] # gsQueue[p] /\ (gsBlocked'[p] \/ gsPc'[p] = "ai"))
         => gsSnap[p] = <<[paused |-> RISK_SNAPSHOT.paused,
                           stakeScale |-> RISK_SNAPSHOT.stakeScale]>>]_vars

\* a pick on a priced side carries a price above 1 and an edge of at least the
\* configured minimum, both as stored and as modelProb - 1 / priceTaken
PricedWithEdge(pk) ==
  pk.betSide \in {"home", "away"} =>
    /\ pk.priceTaken # <<>>
    /\ pk.priceTaken[1] > 100
    /\ pk.edge # <<>>
    /\ pk.edge[1] >= EV_CONFIG.minEdge
    /\ pk.modelProb * pk.priceTaken[1] - 1000000 >= EV_CONFIG.minEdge * pk.priceTaken[1]

C16_ModelProbBounded ==
  /\ (call.fn = "modelProbFromContext" /\ call.out # <<>>)
       => call.out[1] >= 5000 /\ call.out[1] <= 7000
  /\ (call.fn = "push" /\ call.out # <<>>)
       => \A k \in DOMAIN call.out[1] :
            call.out[1][k].modelProb >= 5000 /\ call.out[1][k].modelProb <= 7000

\* C16 witness: modelProbFromContext has returned the lower bound for a context
\* whose unclamped sum lies below it (over_momentum with no shots and no xG).
C16_Witness ==
  /\ call.fn = "modelProbFromContext"
  /\ call.out = <<5000>>
  /\ call.args.strategy = "over_momentum"
  /\ call.args.ctx.sogTotal = 0
  /\ call.args.ctx.xGTotal = 0

\* C17: grading a pick on side home or away against the final score gives WIN
\* exactly when the picked side scored strictly more goals than its opponent and
\* LOSE otherwise, a draw included, in settle1x2 and in both gradeResult versions.
C17_SideWinsIffScoredMore ==
  /\ (call.fn = "settle1x2" /\ call.out # <<>>)
       => call.out[1] = IF (IF call.args.side = "home"
                            THEN call.args.scoreHome > call.args.scoreAway
                            ELSE call.args.scoreAway > call.args.scoreHome)
                        THEN "WIN" ELSE "LOSE"
  /\ (call.fn \in {"gradeResult", "gradeResultV2"} /\ call.out # <<>>)
       => call.out[1] = IF (IF call.args.pick.betSide = "home"
                            THEN call.args.fh > call.args.fa
                            ELSE call.args.fa > call.args.fh)
                        THEN "WIN" ELSE "LOSE"

\* what a total-goals pick on `line` (in quarter goals) is worth at a final total
TotalOutcome(over, line, goals) ==
  IF 4 * goals = line THEN "PUSH"
  ELSE IF over = (4 * goals > line) THEN "WIN"
  ELSE "LOSE"

\* C18: for a total-goals pick with a numeric line, OVER is WIN when total goals
\* > line, UNDER is WIN when total goals < line, total goals equal to the line is
\* PUSH for both selections and every other case is LOSE, in settleTotal,
\* settleOverUnder and settlePick.
C18_TotalAgainstLine ==
  /\ (call.fn = "settleTotal" /\ call.out # <<>> /\ call.args.line.t = "number")
       => call.out[1] = TotalOutcome(call.args.selection = "OVER", call.args.line.n,
                                     call.args.scoreHome + call.args.scoreAway)
  /\ (call.fn = "settleOverUnder" /\ call.out # <<>>)
       => call.out[1] = TotalOutcome(call.args.pickSide = "over", call.args.line,
                                     call.args.finalScore.home + call.args.finalScore.away)
  /\ (call.fn = "settlePick" /\ call.out # <<>> /\ call.args.pick.ouLine # <<>>)
       => call.out[1] = TotalOutcome(call.args.pick.betSide = "over", call.args.pick.ouLine[1],
                                     call.args.finalScore.home + call.args.finalScore.away)

\* C19: a total-goals pick whose line is absent or not a number (undefined,
\* null, empty string, non-numeric text) is settled as SKIP and never as WIN,
\* LOSE or PUSH.
C19_NoLineIsSkip ==
  (call.fn = "settleTotal" /\ call.out # <<>> /\ call.args.line.t # "number")
    => call.out[1] = "SKIP"

\* C20: for every quarter line in [-3, +3] _splitAsianLine returns two parts,
\* the half-step lines line - 0.25 and line + 0.25; every whole or half line
\* returns itself as a single part.
C20_SplitBracketsLine ==
  (call.fn = "_splitAsianLine" /\ call.out # <<>>)
    => LET ln == call.args.line
           parts == call.out[1]
       IN IF Abs(ln) % 4 \in {1, 3}
          THEN Len(parts) = 2 /\ {parts[1], parts[2]} = {ln - 1, ln + 1}
          ELSE parts = <<ln>>

\* one half of a handicap bet: the goal difference adjusted by a half-step line
HalfOutcome(adjusted) ==
  IF adjusted > 0 THEN "WIN" ELSE IF adjusted < 0 THEN "LOSE" ELSE "PUSH"

\* the combination table of two halves
CombineHalves(o1, o2) ==
  IF o1 = o2 THEN o1
  ELSE IF {o1, o2} = {"WIN", "PUSH"} THEN "HALF_WIN"
  ELSE IF {o1, o2} = {"LOSE", "PUSH"} THEN "HALF_LOSE"
  ELSE "PUSH"

\* the reference settlement: diff in goals, ln in quarter goals
HandicapReference(diff, ln) ==
  IF ln % 2 = 0 THEN HalfOutcome(4 * diff + ln)
  ELSE CombineHalves(HalfOutcome(4 * diff + ln - 1), HalfOutcome(4 * diff + ln + 1))

\* C21: for every final score, side in {home, away} and line in {0, +-0.25,
\* +-0.5, +-0.75}, settleAsianHandicap equals the reference: the side's goal
\* difference adjusted by the line, a quarter line being the combination of its
\* two adjacent half-step lines.
C21_HandicapMatchesReference ==
  (call.fn = "settleAsianHandicap" /\ call.out # <<>> /\ Abs(call.args.line[1]) <= 3)
    => call.out[1] = HandicapReference(
                       IF call.args.side = "home" THEN call.args.scoreHome - call.args.scoreAway
                       ELSE call.args.scoreAway - call.args.scoreHome,
                       call.args.line[1])

\* home on -0.25 at 1-1 is HALF_LOSE
C21_Witness ==
  /\ call.fn = "settleAsianHandicap"
  /\ call.args = [side |-> "home", line |-> <<-1>>, scoreHome |-> 1, scoreAway |-> 1]
  /\ call.out = <<"HALF_LOSE">>

\* C22: with a price above 1 and a positive stake, the realized profit is
\* (price - 1) x stake for WIN, half of that for HALF_WIN, -stake for LOSE,
\* -stake/2 for HALF_LOSE, and 0 for PUSH and SKIP.
C22_ProfitByOutcome ==
  (/\ call.fn = "profitForOutcome" /\ call.out # <<>>
   /\ call.args.odds # <<>> /\ call.args.stake # <<>>
   /\ call.args.odds[1] > 100 /\ call.args.stake[1] > 0)
    => LET price == call.args.odds[1]
           stake == call.args.stake[1]
           profit == call.out[1]
       IN CASE call.args.outcome = "WIN" -> profit = (price - 100) * stake
            [] call.args.outcome = "HALF_WIN" -> 2 * profit = (price - 100) * stake
            [] call.args.outcome = "LOSE" -> profit = -100 * stake
            [] call.args.outcome = "HALF_LOSE" -> 2 * profit = -100 * stake
            [] OTHER -> profit = 0

\* C23: a pending pick is settled by a pass of the scripts (given a result by
\* updateLogs, given a record by runSettle) when its match is finished (FT, AET
\* or PEN) and the fetch answers, and by no pass while it is not finished: then
\* it stays PENDING in picks.log for a later pass.
C23_FinishedStatesSettle ==
  \A i \in DOMAIN pickLog :
    pickLog[i].result = "PENDING"
      => /\ (feed[pickLog[i].fixtureId].short \in FinishedShorts)
              <=> ENABLED (UpdateLogs /\ pickLog'[i].result # "PENDING")
         /\ settledLog = <<>>
              => ((feed[pickLog[i].fixtureId].short \in FinishedShorts)
                    <=> ENABLED (RunSettle /\ \E k \in DOMAIN settledLog' : settledLog'[k].srcLine = i))

\* a pick the pass cannot settle: market unsupported, side missing, or line not
\* a number
Unsettleable(p) ==
  \/ p.market \notin {"1X2", "TOTAL", "HANDICAP"}
  \/ p.market \in {"1X2", "HANDICAP"} /\ p.side \notin {"home", "away", "draw"}
  \/ p.market \in {"TOTAL", "HANDICAP"} /\ p.line.t # "number"

\* C24: every pending pick of a finished match that cannot be settled (side
\* missing, line non-numeric, market unsupported) comes out of the settlement as
\* SKIP with a non-empty reason, and never with a win/lose outcome or any other
\* value.
C24_UnsettleableIsSkip ==
  /\ (call.fn = "syncSettle" /\ call.out # <<>> /\ Unsettleable(call.args.p))
       => call.out[1].outcome = "SKIP" /\ call.out[1].reason # ""
  /\ (call.fn = "settlePick" /\ call.out # <<>> /\ call.args.pick.betSide = NULL)
       => call.out[1] = "SKIP"

\* C25: in every state of the picks and results logs a pick's result is PENDING
\* or one of WIN, LOSE, PUSH, HALF_WIN, HALF_LOSE, SKIP, and a result that is no
\* longer PENDING never changes again.
C25_ResultValues ==
  /\ [](/\ \A i \in DOMAIN pickLog : pickLog[i].result \in {"PENDING"} \cup Outcomes
        /\ \A k \in DOMAIN settledLog : settledLog[k].pick.result \in {"PENDING"} \cup Outcomes
        /\ \A k \in DOMAIN resultsLog : resultsLog[k].outcome \in Outcomes)
  /\ [][\A i \in DOMAIN pickLog :
          pickLog[i].result # "PENDING" => pickLog'[i].result = pickLog[i].result]_vars

\* C26: each per-strategy performance row reports win rate = wins / decided bets
\* (pushes and skips left out of the denominator) and ROI = profit sum / stake
\* sum, with win rate 0 when no bet is decided and ROI 0 when the stake sum is 0.
C26_RatesOverDecided ==
  (call.fn = "performance" /\ call.out # <<>>)
    => \A k \in DOMAIN call.out[1] :
         LET row == call.out[1][k]
             mine == SelectSeq(call.args.resultsRaw, LAMBDA r : r.strategy = row.strategy)
             wins == Len(SelectSeq(mine, LAMBDA r : r.outcome = "WIN"))
             decided == Len(SelectSeq(mine, LAMBDA r : r.outcome \notin {"PUSH", "SKIP"}))
             profitSum == SumField(mine, "profit")
             stakeSum == SumField(mine, "stake")
         IN /\ row.winRate = IF decided = 0 THEN 0 ELSE RoundDiv(10000 * wins, decided)
            /\ row.ROI = IF stakeSum = 0 THEN 0 ELSE RoundDiv(10000 * profitSum, stakeSum)

\* the value a metrics record has for the quantity a threshold bounds
Measured(key, m) ==
  LET sotH == OrZero(m.shotsOnGoal.home)
      sotA == OrZero(m.shotsOnGoal.away)
  IN CASE key \in {"minMinute", "maxMinute"} -> m.minute
       [] key = "minPressure" -> Max(m.pressure.home, m.pressure.away)
       [] key = "minSOTDiff" -> Abs(sotH - sotA)
       [] key = "minSOT" -> Max(sotH, sotA)
       [] key = "minCornerDiff" -> Abs(OrZero(m.corners.home) - OrZero(m.corners.away))
       [] key = "maxTotalShotsSum" -> OrZero(m.shotsTotal.home) + OrZero(m.shotsTotal.away)
       [] key = "maxSOTSum" -> sotH + sotA
       [] key = "maxXgProxySum" -> m.xgProxy.home + m.xgProxy.away
       [] key = "maxGoalDown" -> Abs(m.score.diff)

MinimumKeys == {"minMinute", "minPressure", "minSOTDiff", "minSOT", "minCornerDiff"}

\* the configured numeric thresholds a metrics record violates, bounds inclusive
ViolatedKeys(params, m) ==
  {k \in ParamKeys :
     /\ params[k].t = "number"
     /\ IF k \in MinimumKeys THEN Measured(k, m) < params[k].n ELSE Measured(k, m) > params[k].n}

\* no threshold of the params is malformed
AllNumeric(params) == \A k \in ParamKeys : params[k].t \in {"number", "undefined"}

\* C27: with numeric thresholds evaluateParams returns exactly one reason per
\* violated threshold, all of them, and the empty list exactly when none is
\* violated; the bounds are inclusive (minute == maxMinute and minute ==
\* minMinute pass, maxMinute + 1 and minMinute - 1 fail).
C27_OneReasonPerViolation ==
  (call.fn = "evaluateParams" /\ call.out # <<>> /\ AllNumeric(call.args.params))
    => LET reasons == call.out[1]
       IN /\ {reasons[i] : i \in DOMAIN reasons} = ViolatedKeys(call.args.params, call.args.metrics)
          /\ Len(reasons) = Cardinality(ViolatedKeys(call.args.params, call.args.metrics))

\* minute == maxMinute + 1 with every threshold configured, in a quiet match:
\* the minute and the four minimum thresholds on statistics are all reported
C27_Witness ==
  /\ call.fn = "evaluateParams"
  /\ AllNumeric(call.args.params)
  /\ call.args.metrics.minute = call.args.params.maxMinute.n + 1
  /\ call.out = <<<<"maxMinute", "minPressure", "minSOTDiff", "minSOT", "minCornerDiff">>>>

\* C28: a threshold whose configured value is malformed (no finite number)
\* imposes no constraint: evaluateParams returns the same reasons as if that
\* threshold were absent, for minimum and for maximum thresholds alike.
C28_MalformedIsUnset ==
  (call.fn = "evaluateParams" /\ call.out # <<>>)
    => \A k \in ParamKeys :
         call.args.params[k] = RawText
           => call.out[1] = evaluateParams([call.args.params EXCEPT ![k] = RawAbsent],
                                           call.args.metrics)

\* C29: for every raw statistics input (very large, negative, missing or
\* non-numeric shots, shots on target and corners) the pressure index and the
\* xG proxy of both sides of the metrics record lie within [0, 1].
C29_IndicesWithinUnit ==
  (call.fn = "buildMetricsForFixture" /\ call.out # <<>>)
    => \A side \in {"home", "away"} :
         /\ call.out[1].pressure[side] \in 0..100
         /\ call.out[1].xgProxy[side] \in 0..100

\* the largest shots on target with negative total shots and unparsable
\* corners: the pressure index is cut to 1
C29_Witness ==
  /\ call.fn = "buildMetricsForFixture"
  /\ call.out # <<>>
  /\ call.args.statsArr # <<>>
  /\ call.args.statsArr[1].shotsOnGoal.home = RawNumber(MaxStat)
  /\ call.args.statsArr[1].shotsTotal.home = RawNumber(-5)
  /\ call.args.statsArr[1].corners.home = RawText
  /\ call.out[1].pressure.home = 100
  /\ call.out[1].pressure.away = 0

\* C30: in every metrics record buildMetricsForFixture returns, each per-side
\* shot, shot-on-target, corner and card count is a number: a statistic missing
\* or unparsable in the raw input appears as 0, never as null.
C30_CountsAreNumbers ==
  (call.fn = "buildMetricsForFixture" /\ call.out # <<>>)
    => \A side \in {"home", "away"} :
         LET m == call.out[1]
         IN \A count \in {m.shotsOnGoal, m.shotsTotal, m.corners, m.cards.yellow, m.cards.red} :
              count[side] # <<>>

\* the result refreshRiskSnapshot grades the last settled pick of the day with,
\* in timestamp order; "" when no pick is settled
LastSettledResult(picks, rows, failed) ==
  LET ordered == SortOldestFirst(picks)
      Result(i) == gradeResult(ordered[i], rows[ordered[i].fixtureId].fh,
                               rows[ordered[i].fixtureId].fa)
      settled == {i \in DOMAIN ordered : /\ ordered[i].fixtureId \notin failed
                                         /\ rows[ordered[i].fixtureId].short = "FT"
                                         /\ Result(i) \in {"WIN", "LOSE"}}
  IN IF settled = {} THEN ""
     ELSE Result(CHOOSE i \in settled : \A j \in settled : j <= i)

\* the profit and loss of the day's settled picks, in 1/100
RECURSIVE SettledPnl(_, _, _)
SettledPnl(picks, rows, failed) ==
  IF picks = <<>> THEN 0
  ELSE LET p == Head(picks)
           res == gradeResult(p, rows[p.fixtureId].fh, rows[p.fixtureId].fa)
           counted == /\ p.fixtureId \notin failed
                      /\ rows[p.fixtureId].short = "FT"
                      /\ res \in {"WIN", "LOSE"}
       IN (IF counted THEN computeROI(res, p.priceTaken) ELSE 0)
            + SettledPnl(Tail(picks), rows, failed)

Settleable(p) == SyncOutcome(p, 0, 0) # "SKIP"

\* C32: a record of picks.ndjson whose pick is of a settleable market and whose
\* fixture has finished is eventually followed by a result record carrying its
\* pickId, when writing sync passes keep being run and their fixture fetches
\* keep answering.
C32_PendingEventuallySettled ==
  \A i \in 1..MaxPicksLog :
    (/\ i <= Len(picksLog)
     /\ picksLog[i].pick.fixtureId \in finished
     /\ Settleable(normalizePickRecord(picksLog[i], i - 1)))
      ~> (/\ i <= Len(picksLog)
          /\ makePickId(normalizePickRecord(picksLog[i], i - 1)) \in SettledIdsOf(resultsLog))

ProceedPastHead(p) ==
  /\ NextScan
  /\ gsPc[p] = "eval"
  /\ gsQueue'[p] # gsQueue[p]
  /\ gsQueue'[p] # <<>>
  /\ Head(gsQueue'[p]) = Head(gsQueue[p])

\* C34: while the odds / statistics calls for the fixture at the head of a scan
\* cycle's queue are outstanding, the cycle can evaluate another fixture of its
\* queue.
C34_OthersProceedWhileWaiting ==
  \A p \in Procs :
    (gsPc[p] = "eval" /\ Len(gsQueue[p]) >= 2) => ENABLED ProceedPastHead(p)

SettledFrom(r, i) ==
  LET n == normalizePickRecord(picksLog[i], i - 1)
  IN /\ r.fixtureId = n.fixtureId
     /\ r.strategy = n.strategy
     /\ r.market = n.market
     /\ r.side = n.side
     /\ r.line = n.line
     /\ r.ts_pick = n.ts

\* C36: every record of results.ndjson carries the pickId that is stored on the
\* pick record it was computed from.
C36_ResultJoinsPick ==
  \A k \in DOMAIN resultsLog, i \in DOMAIN picksLog :
    SettledFrom(resultsLog[k], i) => resultsLog[k].pickId = picksLog[i].pick.pickId

\* C37: a strategy evaluated for a fixture is counted as passed or as rejected
\* and not as both; an entry of the rejected list carries at least one reason;
\* and a strategy whose picks were logged has no entry in the rejected list.
C37_PassedOrRejected ==
  (call.fn = "scanStrategy" /\ call.out # <<>>) =>
    LET d == call.out[1]
    IN /\ (d.passed > 0) # (d.rejected > 0)
       /\ \A i \in DOMAIN d.entries : d.entries[i].reasons # <<>>
       /\ d.picks # <<>> => d.entries = <<>>

\* C38: for every final score, side and line of the quarter grid, the two halves
\* of a split line are never graded one WIN and one LOSE, so the combined
\* outcome is PUSH only when every part is PUSH.
C38_HalvesNeverOppose ==
  (call.fn = "settleAsianHandicap" /\ call.out # <<>>) =>
    LET parts == splitAsianLine(call.args.line[1])
        baseDiff == IF call.args.side = "home"
                    THEN 4 * (call.args.scoreHome - call.args.scoreAway)
                    ELSE 4 * (call.args.scoreAway - call.args.scoreHome)
        halves == {outcomeForAdjusted(baseDiff + parts[i]) : i \in DOMAIN parts}
    IN /\ halves # {"WIN", "LOSE"}
       /\ call.out[1] = "PUSH" => halves = {"PUSH"}

\* home on +0.25 at 0-0: the halves are PUSH and WIN, the bet is HALF_WIN
C38_Witness ==
  /\ call.fn = "settleAsianHandicap"
  /\ call.args = [side |-> "home", line |-> <<1>>, scoreHome |-> 0, scoreAway |-> 0]
  /\ call.out = <<"HALF_WIN">>

\* the sides choosePrice finds no price for
Unpriced(key) == key[3] \notin {"home", "away"}

\* C39: a pick on a side without a price (over, goal_soon) is emitted at most once
\* per fixture|strategy|betSide key: no two emissions share such a key, and every
\* allowEmit call for such a key that has been emitted before is rejected, however
\* much time has elapsed.
C39_UnpricedEmittedOnce ==
  /\ \A i, j \in DOMAIN emitLog :
       (i < j /\ Unpriced(emitLog[i].key)) => emitLog[i].key # emitLog[j].key
  /\ \A k \in DOMAIN allowCalls :
       (Unpriced(allowCalls[k].key) /\ allowCalls[k].prev # <<>>) => ~allowCalls[k].ret

\* C39 witness: a pick on an unpriced side is rejected although the cooldown has
\* elapsed since the emission of its key.
C39_Witness ==
  \E k \in DOMAIN allowCalls :
    LET c == allowCalls[k]
    IN /\ Unpriced(c.key)
       /\ c.prev # <<>>
       /\ c.at - c.prev[1].at >= DEDUP_CFG.cooldownMin
       /\ ~c.ret
       /\ \E i \in DOMAIN emitLog : emitLog[i].key = c.key

\* C40: for a pick settled without usable odds (no finite number, or not above 1)
\* the realized profit is never positive: it is 0 on WIN and minus the stake
\* (1 when the pick carries none) on LOSE.
C40_NoOddsNeverProfits ==
  (/\ call.fn = "profitForOutcome"
   /\ call.out # <<>>
   /\ (call.args.odds = <<>> \/ call.args.odds[1] <= 100))
    => /\ call.out[1] <= 0
       /\ call.args.outcome = "WIN" => call.out[1] = 0
       /\ call.args.outcome = "LOSE"
            => call.out[1] = -100 * (IF call.args.stake = <<>> THEN 100 ELSE call.args.stake[1])

\* C40 witness: a won pick without odds and without a stake, as the scanner's
\* HANDICAP picks are, has been given the profit 0.
C40_Witness ==
  /\ call.fn = "profitForOutcome"
  /\ call.args = [outcome |-> "WIN", odds |-> <<>>, stake |-> <<>>]
  /\ call.out = <<0>>


====
